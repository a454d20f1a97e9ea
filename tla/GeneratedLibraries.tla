-------------------------- MODULE GeneratedLibraries --------------------------
(***************************************************************************)
(* What jnigen was given and what it generated, as the repository has it:  *)
(* the declarations of the Java classes, which the generated Dart code     *)
(* quotes above each member, and the C functions.  android_utils is a      *)
(* whole library, kotlin_plugin and notification_plugin are the two        *)
(* smallest, and of simple_package there are the classes with fields of    *)
(* every kind.  A name is a text and the digits at its end; the parameters *)
(* of a method are only told apart.                                        *)
(***************************************************************************)
EXTENDS Naturals, Sequences

LOCAL INSTANCE SequencesExt

Named(name) == [text |-> Head(name), nums |-> Tail(name)]

-----------------------------------------------------------------------------
(* Java *)

Declaration(constructor, static, final, default, type) ==
  [constructor |-> constructor, static |-> static, final |-> final,
   default |-> default, type |-> type]

Declared(name, params, declaration) ==
  [name |-> Named(name), params |-> params, declaration |-> declaration]

Constructor(params) ==
  Declared(<<"new">>, params, Declaration(TRUE, FALSE, FALSE, FALSE, "void"))

Virtual(type, name, params) ==
  Declared(<<name>>, params, Declaration(FALSE, FALSE, FALSE, FALSE, type))

Static(type, name, params) ==
  Declared(<<name>>, params, Declaration(FALSE, TRUE, FALSE, FALSE, type))

DeclaredFields(static, final, default, type, names) ==
  [i \in DOMAIN names |->
     Declared(names[i], "", Declaration(FALSE, static, final, default, type))]

Fields(type, names) == DeclaredFields(FALSE, FALSE, FALSE, type, names)

StaticFields(type, names) == DeclaredFields(TRUE, FALSE, FALSE, type, names)

StaticFinals(type, names) == DeclaredFields(TRUE, TRUE, FALSE, type, names)

Constants(names) == DeclaredFields(TRUE, TRUE, TRUE, "object", names)

JavaClass(methods, fields) == [methods |-> methods, fields |-> fields]

AndroidUtilsJava ==
  JavaClass(<<Static("void", "showToast", "Activity,CharSequence,int")>>, <<>>)

EmojiCompatJava ==
  JavaClass(<<Static("object", "init", "Context"),
              Static("object", "init", "Context,DefaultEmojiCompatConfigFactory"),
              Static("object", "init", "Config"),
              Static("boolean", "isConfigured", ""),
              Static("object", "reset", "Config"),
              Static("object", "reset", "EmojiCompat"),
              Static("void", "skipDefaultConfigurationLookup", "boolean"),
              Static("object", "get", ""), Virtual("void", "load", ""),
              Virtual("void", "registerInitCallback", "InitCallback"),
              Virtual("void", "unregisterInitCallback", "InitCallback"),
              Virtual("int", "getLoadState", ""),
              Virtual("boolean", "isEmojiSpanIndicatorEnabled", ""),
              Virtual("int", "getEmojiSpanIndicatorColor", ""),
              Virtual("int", "getEmojiStart", "CharSequence,int"),
              Virtual("int", "getEmojiEnd", "CharSequence,int"),
              Static("boolean", "handleOnKeyDown", "Editable,int,KeyEvent"),
              Static("boolean", "handleDeleteSurroundingText", "InputConnection,Editable,int,int,boolean"),
              Virtual("boolean", "hasEmojiGlyph", "CharSequence"),
              Virtual("boolean", "hasEmojiGlyph", "CharSequence,int"),
              Virtual("int", "getEmojiMatch", "CharSequence,int"),
              Virtual("object", "process", "CharSequence"),
              Virtual("object", "process", "CharSequence,int,int"),
              Virtual("object", "process", "CharSequence,int,int,int"),
              Virtual("object", "process", "CharSequence,int,int,int,int"),
              Virtual("object", "getAssetSignature", ""),
              Virtual("void", "updateEditorInfo", "EditorInfo")>>,
            Constants(<<<<"EDITOR_INFO_METAVERSION_KEY">>, <<"EDITOR_INFO_REPLACE_ALL_KEY">>,
                <<"LOAD_STATE_DEFAULT">>, <<"LOAD_STATE_LOADING">>,
                <<"LOAD_STATE_SUCCEEDED">>, <<"LOAD_STATE_FAILED">>,
                <<"REPLACE_STRATEGY_DEFAULT">>, <<"REPLACE_STRATEGY_ALL">>,
                <<"REPLACE_STRATEGY_NON_EXISTENT">>, <<"LOAD_STRATEGY_DEFAULT">>,
                <<"LOAD_STRATEGY_MANUAL">>, <<"EMOJI_UNSUPPORTED">>,
                <<"EMOJI_SUPPORTED">>, <<"EMOJI_FALLBACK">>>>))

EmojiCompatConfigJava ==
  JavaClass(<<Constructor("MetadataRepoLoader"),
              Virtual("object", "registerInitCallback", "InitCallback"),
              Virtual("object", "unregisterInitCallback", "InitCallback"),
              Virtual("object", "setReplaceAll", "boolean"),
              Virtual("object", "setUseEmojiAsDefaultStyle", "boolean"),
              Virtual("object", "setUseEmojiAsDefaultStyle", "boolean,List"),
              Virtual("object", "setEmojiSpanIndicatorEnabled", "boolean"),
              Virtual("object", "setEmojiSpanIndicatorColor", "int"),
              Virtual("object", "setMetadataLoadStrategy", "int"),
              Virtual("object", "setSpanFactory", "SpanFactory"),
              Virtual("object", "setGlyphChecker", "GlyphChecker"),
              Virtual("object", "getMetadataRepoLoader", "")>>, <<>>)

EmojiCompatMetadataRepoLoaderCallbackJava ==
  JavaClass(<<Constructor(""), Virtual("void", "onLoaded", "MetadataRepo"),
              Virtual("void", "onFailed", "Throwable")>>, <<>>)

EmojiCompatGlyphCheckerJava ==
  JavaClass(<<Virtual("boolean", "hasGlyph", "CharSequence,int,int,int")>>, <<>>)

EmojiCompatMetadataRepoLoaderJava ==
  JavaClass(<<Virtual("void", "load", "MetadataRepoLoaderCallback")>>, <<>>)

EmojiCompatInitCallbackJava ==
  JavaClass(<<Constructor(""), Virtual("void", "onInitialized", ""),
              Virtual("void", "onFailed", "Throwable")>>, <<>>)

EmojiCompatDefaultSpanFactoryJava ==
  JavaClass(<<Constructor(""),
              Virtual("object", "createSpan", "TypefaceEmojiRasterizer")>>, <<>>)

EmojiCompatSpanFactoryJava ==
  JavaClass(<<Virtual("object", "createSpan", "TypefaceEmojiRasterizer")>>, <<>>)

DefaultEmojiCompatConfigJava ==
  JavaClass(<<Static("object", "create", "Context")>>, <<>>)

HelperAPI28Java ==
  JavaClass(<<Constructor(""),
              Virtual("object", "getSigningSignatures", "PackageManager,String")>>, <<>>)

HelperAPI19Java ==
  JavaClass(<<Constructor(""),
              Virtual("object", "queryIntentContentProviders", "PackageManager,Intent,int"),
              Virtual("object", "getProviderInfo", "ResolveInfo")>>, <<>>)

HelperJava ==
  JavaClass(<<Constructor(""),
              Virtual("object", "getSigningSignatures", "PackageManager,String"),
              Virtual("object", "queryIntentContentProviders", "PackageManager,Intent,int"),
              Virtual("object", "getProviderInfo", "ResolveInfo")>>, <<>>)

FactoryJava ==
  JavaClass(<<Constructor("DefaultEmojiCompatConfigHelper"),
              Virtual("object", "create", "Context")>>, <<>>)

BuildPartitionJava ==
  JavaClass(<<Virtual("object", "getName", ""),
              Virtual("object", "getFingerprint", ""),
              Virtual("long", "getBuildTimeMillis", ""),
              Virtual("boolean", "equals", "Object"), Virtual("int", "hashCode", "")>>,
            Constants(<<<<"PARTITION_NAME_SYSTEM">>>>))

BuildVERSIONJava ==
  JavaClass(<<Constructor("")>>,
            StaticFinals("object", <<<<"BASE_OS">>, <<"CODENAME">>, <<"INCREMENTAL">>>>)
         \o StaticFinals("int", <<<<"MEDIA_PERFORMANCE_CLASS">>, <<"PREVIEW_SDK_INT">>>>)
         \o StaticFinals("object", <<<<"RELEASE">>, <<"RELEASE_OR_CODENAME">>,
                <<"RELEASE_OR_PREVIEW_DISPLAY">>, <<"SDK">>>>)
         \o StaticFinals("int", <<<<"SDK_INT">>>>)
         \o StaticFinals("object", <<<<"SECURITY_PATCH">>>>))

BuildVERSIONCODESJava ==
  JavaClass(<<Constructor("")>>,
            Constants(<<<<"BASE">>, <<"BASE_1_", 1>>, <<"CUPCAKE">>, <<"CUR_DEVELOPMENT">>,
                <<"DONUT">>, <<"ECLAIR">>, <<"ECLAIR_0_", 1>>, <<"ECLAIR_MR", 1>>,
                <<"FROYO">>, <<"GINGERBREAD">>, <<"GINGERBREAD_MR", 1>>,
                <<"HONEYCOMB">>, <<"HONEYCOMB_MR", 1>>, <<"HONEYCOMB_MR", 2>>,
                <<"ICE_CREAM_SANDWICH">>, <<"ICE_CREAM_SANDWICH_MR", 1>>,
                <<"JELLY_BEAN">>, <<"JELLY_BEAN_MR", 1>>, <<"JELLY_BEAN_MR", 2>>,
                <<"KITKAT">>, <<"KITKAT_WATCH">>, <<"LOLLIPOP">>,
                <<"LOLLIPOP_MR", 1>>, <<"M">>, <<"N">>, <<"N_MR", 1>>, <<"O">>,
                <<"O_MR", 1>>, <<"P">>, <<"Q">>, <<"R">>, <<"S">>, <<"S_V", 2>>,
                <<"TIRAMISU">>>>))

BuildJava ==
  JavaClass(<<Constructor(""), Static("object", "getSerial", ""),
              Static("object", "getFingerprintedPartitions", ""),
              Static("object", "getRadioVersion", "")>>,
            StaticFinals("object", <<<<"BOARD">>, <<"BOOTLOADER">>, <<"BRAND">>, <<"CPU_ABI">>,
                <<"CPU_ABI", 2>>, <<"DEVICE">>, <<"DISPLAY">>, <<"FINGERPRINT">>,
                <<"HARDWARE">>, <<"HOST">>, <<"ID">>, <<"MANUFACTURER">>,
                <<"MODEL">>, <<"ODM_SKU">>, <<"PRODUCT">>, <<"RADIO">>, <<"SERIAL">>,
                <<"SKU">>, <<"SOC_MANUFACTURER">>, <<"SOC_MODEL">>,
                <<"SUPPORTED_32_BIT_ABIS">>, <<"SUPPORTED_64_BIT_ABIS">>,
                <<"SUPPORTED_ABIS">>, <<"TAGS">>>>)
         \o StaticFinals("long", <<<<"TIME">>>>)
         \o StaticFinals("object", <<<<"TYPE">>>>)
         \o Constants(<<<<"UNKNOWN">>>>)
         \o StaticFinals("object", <<<<"USER">>>>))

HashMapJava ==
  JavaClass(<<Constructor("int,float"), Constructor("int"), Constructor(""),
              Constructor("Map"), Virtual("int", "size", ""),
              Virtual("boolean", "isEmpty", ""), Virtual("object", "get", "Object"),
              Virtual("boolean", "containsKey", "Object"),
              Virtual("object", "put", "K,V"), Virtual("void", "putAll", "Map"),
              Virtual("object", "remove", "Object"), Virtual("void", "clear", ""),
              Virtual("boolean", "containsValue", "Object"),
              Virtual("object", "keySet", ""), Virtual("object", "values", ""),
              Virtual("object", "entrySet", ""),
              Virtual("object", "getOrDefault", "Object,V"),
              Virtual("object", "putIfAbsent", "K,V"),
              Virtual("boolean", "remove", "Object,Object"),
              Virtual("boolean", "replace", "K,V,V"),
              Virtual("object", "replace", "K,V"),
              Virtual("object", "computeIfAbsent", "K,Function"),
              Virtual("object", "computeIfPresent", "K,BiFunction"),
              Virtual("object", "compute", "K,BiFunction"),
              Virtual("object", "merge", "K,V,BiFunction"),
              Virtual("void", "forEach", "BiConsumer"),
              Virtual("void", "replaceAll", "BiFunction"),
              Virtual("object", "clone", "")>>, <<>>)

ExampleJava ==
  JavaClass(<<Constructor(""),
              Virtual("object", "thinkBeforeAnswering", "Continuation")>>, <<>>)

NotificationsJava ==
  JavaClass(<<Constructor(""),
              Static("void", "showNotification", "Context,int,String,String")>>, <<>>)

FieldsJava ==
  JavaClass(<<Constructor("")>>,
            StaticFields("int", <<<<"amount">>>>)
         \o StaticFields("double", <<<<"pi">>>>)
         \o StaticFields("char", <<<<"asterisk">>>>)
         \o StaticFields("object", <<<<"name">>>>)
         \o Fields("object", <<<<"i">>>>)
         \o Fields("long", <<<<"trillion">>>>)
         \o Fields("boolean", <<<<"isAchillesDead">>>>)
         \o Fields("object", <<<<"bestFighterInGreece">>, <<"random">>>>)
         \o StaticFields("char", <<<<"euroSymbol">>>>))

FieldsNestedJava ==
  JavaClass(<<Constructor("")>>,
            Fields("long", <<<<"hundred">>>>)
         \o StaticFields("object", <<<<"BEST_GOD">>>>))

-----------------------------------------------------------------------------
(* C.  number is what follows the Java name in the name of the function. *)

CFunction(prefix, member, self, load, java, call, result) ==
  [kind |-> "function", prefix |-> prefix, class |-> Named(<<"">>), member |-> member,
   self |-> self, load |-> load, java |-> java, call |-> call, result |-> result]

\* The member of jvalue in which a function returns what it got from JNI.
UnionField ==
  [Void |-> "none", Boolean |-> "z", Char |-> "c", Int |-> "i", Long |-> "j",
   Double |-> "d", Object |-> "l"]

New(number) ==
  CFunction("", Named(<<"new">> \o number), FALSE, "load_method", Named(<<"<init>">>),
            <<"NewObject">>, "l")

Calls(type, name, number) ==
  CFunction("", Named(<<name>> \o number), TRUE, "load_method", Named(<<name>>),
            <<"Call", "", type, "Method">>, UnionField[type])

CallsStatic(type, name, number) ==
  CFunction("", Named(<<name>> \o number), FALSE, "load_static_method", Named(<<name>>),
            <<"Call", "Static", type, "Method">>, UnionField[type])

Get(type, name) ==
  CFunction("Get", Named(name), TRUE, "load_field", Named(name),
            <<"Get", "", type, "Field">>, UnionField[type])

GetStatic(type, name) ==
  CFunction("Get", Named(name), FALSE, "load_static_field", Named(name),
            <<"Get", "Static", type, "Field">>, UnionField[type])

Set(type, name) ==
  CFunction("Set", Named(name), TRUE, "load_field", Named(name),
            <<"Set", "", type, "Field">>, "none")

SetStatic(type, name) ==
  CFunction("Set", Named(name), FALSE, "load_static_field", Named(name),
            <<"Set", "Static", type, "Field">>, "none")

GetsStatic(type, names) == [i \in DOMAIN names |-> GetStatic(type, names[i])]

\* More functions of a class, and its first ones after the variable of the class.
More(class, functions) ==
  [i \in DOMAIN functions |-> [functions[i] EXCEPT !.class = Named(class)]]

Section(class, functions) ==
  <<[kind |-> "class", class |-> Named(class)]>> \o More(class, functions)

PreludeC ==
  <<[kind |-> "prelude",
     defines |-> {"jniEnv", "jni", "context_getter", "env_getter", "setJniGetters"}]>>

AndroidUtilsC1 ==
  Section(<<"AndroidUtils">>,
      <<CallsStatic("Void", "showToast", <<>>)>>)
  \o Section(<<"EmojiCompat">>,
      <<CallsStatic("Object", "init", <<>>), CallsStatic("Object", "init", <<1>>),
        CallsStatic("Object", "init", <<2>>),
        CallsStatic("Boolean", "isConfigured", <<>>),
        CallsStatic("Object", "reset", <<>>), CallsStatic("Object", "reset", <<1>>),
        CallsStatic("Void", "skipDefaultConfigurationLookup", <<>>)>>)

AndroidUtilsC2 ==
  More(<<"EmojiCompat">>,
      <<CallsStatic("Object", "get", <<0>>), Calls("Void", "load", <<>>),
        Calls("Void", "registerInitCallback", <<>>),
        Calls("Void", "unregisterInitCallback", <<>>),
        Calls("Int", "getLoadState", <<>>),
        Calls("Boolean", "isEmojiSpanIndicatorEnabled", <<>>),
        Calls("Int", "getEmojiSpanIndicatorColor", <<>>),
        Calls("Int", "getEmojiStart", <<>>), Calls("Int", "getEmojiEnd", <<>>)>>)

AndroidUtilsC3 ==
  More(<<"EmojiCompat">>,
      <<CallsStatic("Boolean", "handleOnKeyDown", <<>>),
        CallsStatic("Boolean", "handleDeleteSurroundingText", <<>>),
        Calls("Boolean", "hasEmojiGlyph", <<>>),
        Calls("Boolean", "hasEmojiGlyph", <<1>>),
        Calls("Int", "getEmojiMatch", <<>>), Calls("Object", "process", <<>>),
        Calls("Object", "process", <<1>>)>>)

AndroidUtilsC4 ==
  More(<<"EmojiCompat">>,
      <<Calls("Object", "process", <<2>>), Calls("Object", "process", <<3>>),
        Calls("Object", "getAssetSignature", <<>>),
        Calls("Void", "updateEditorInfo", <<>>)>>)
  \o Section(<<"EmojiCompat_Config">>,
      <<New(<<0>>), Calls("Object", "registerInitCallback", <<>>),
        Calls("Object", "unregisterInitCallback", <<>>)>>)

AndroidUtilsC5 ==
  More(<<"EmojiCompat_Config">>,
      <<Calls("Object", "setReplaceAll", <<>>),
        Calls("Object", "setUseEmojiAsDefaultStyle", <<>>),
        Calls("Object", "setUseEmojiAsDefaultStyle", <<1>>),
        Calls("Object", "setEmojiSpanIndicatorEnabled", <<>>),
        Calls("Object", "setEmojiSpanIndicatorColor", <<>>),
        Calls("Object", "setMetadataLoadStrategy", <<>>),
        Calls("Object", "setSpanFactory", <<>>)>>)

AndroidUtilsC6 ==
  More(<<"EmojiCompat_Config">>,
      <<Calls("Object", "setGlyphChecker", <<>>),
        Calls("Object", "getMetadataRepoLoader", <<>>)>>)
  \o Section(<<"EmojiCompat_MetadataRepoLoaderCallback">>,
      <<New(<<0>>), Calls("Void", "onLoaded", <<>>), Calls("Void", "onFailed", <<>>)>>)
  \o Section(<<"EmojiCompat_GlyphChecker">>,
      <<Calls("Boolean", "hasGlyph", <<>>)>>)

AndroidUtilsC7 ==
  Section(<<"EmojiCompat_MetadataRepoLoader">>,
      <<Calls("Void", "load", <<>>)>>)
  \o Section(<<"EmojiCompat_InitCallback">>,
      <<New(<<0>>), Calls("Void", "onInitialized", <<>>),
        Calls("Void", "onFailed", <<>>)>>)
  \o Section(<<"EmojiCompat_DefaultSpanFactory">>,
      <<New(<<0>>), Calls("Object", "createSpan", <<>>)>>)
  \o Section(<<"EmojiCompat_SpanFactory">>,
      <<Calls("Object", "createSpan", <<>>)>>)

AndroidUtilsC8 ==
  Section(<<"DefaultEmojiCompatConfig">>,
      <<CallsStatic("Object", "create", <<>>)>>)
  \o Section(<<"DefaultEmojiCompatConfig_DefaultEmojiCompatConfigHelper_API", 2, 8>>,
      <<New(<<0>>), Calls("Object", "getSigningSignatures", <<1>>)>>)
  \o Section(<<"DefaultEmojiCompatConfig_DefaultEmojiCompatConfigHelper_API", 1, 9>>,
      <<New(<<0>>), Calls("Object", "queryIntentContentProviders", <<>>)>>)

AndroidUtilsC9 ==
  More(<<"DefaultEmojiCompatConfig_DefaultEmojiCompatConfigHelper_API", 1, 9>>,
      <<Calls("Object", "getProviderInfo", <<>>)>>)
  \o Section(<<"DefaultEmojiCompatConfig_DefaultEmojiCompatConfigHelper">>,
      <<New(<<0>>), Calls("Object", "getSigningSignatures", <<>>),
        Calls("Object", "queryIntentContentProviders", <<>>),
        Calls("Object", "getProviderInfo", <<>>)>>)

AndroidUtilsC10 ==
  Section(<<"DefaultEmojiCompatConfig_DefaultEmojiCompatConfigFactory">>,
      <<New(<<0>>), Calls("Object", "create", <<>>)>>)
  \o Section(<<"Build_Partition">>,
      <<Calls("Object", "getName", <<>>), Calls("Object", "getFingerprint", <<>>),
        Calls("Long", "getBuildTimeMillis", <<>>), Calls("Boolean", "equals", <<1>>),
        Calls("Int", "hashCode", <<1>>)>>)

AndroidUtilsC11 ==
  Section(<<"Build_VERSION">>,
      <<New(<<0>>)>>
   \o GetsStatic("Object", <<<<"BASE_OS">>, <<"CODENAME">>, <<"INCREMENTAL">>>>)
   \o GetsStatic("Int", <<<<"MEDIA_PERFORMANCE_CLASS">>, <<"PREVIEW_SDK_INT">>>>)
   \o GetsStatic("Object", <<<<"RELEASE">>, <<"RELEASE_OR_CODENAME">>, <<"RELEASE_OR_PREVIEW_DISPLAY">>,
          <<"SDK">>>>))

AndroidUtilsC12 ==
  More(<<"Build_VERSION">>,
      GetsStatic("Int", <<<<"SDK_INT">>>>)
   \o GetsStatic("Object", <<<<"SECURITY_PATCH">>>>))
  \o Section(<<"Build_VERSION_CODES">>,
      <<New(<<0>>)>>)
  \o Section(<<"Build">>,
      <<New(<<0>>), CallsStatic("Object", "getSerial", <<>>),
        CallsStatic("Object", "getFingerprintedPartitions", <<>>),
        CallsStatic("Object", "getRadioVersion", <<>>)>>
   \o GetsStatic("Object", <<<<"BOARD">>, <<"BOOTLOADER">>>>))

AndroidUtilsC13 ==
  More(<<"Build">>,
      GetsStatic("Object", <<<<"BRAND">>, <<"CPU_ABI">>, <<"CPU_ABI", 2>>, <<"DEVICE">>, <<"DISPLAY">>,
          <<"FINGERPRINT">>, <<"HARDWARE">>, <<"HOST">>, <<"ID">>,
          <<"MANUFACTURER">>, <<"MODEL">>>>))

AndroidUtilsC14 ==
  More(<<"Build">>,
      GetsStatic("Object", <<<<"ODM_SKU">>, <<"PRODUCT">>, <<"RADIO">>, <<"SERIAL">>, <<"SKU">>,
          <<"SOC_MANUFACTURER">>, <<"SOC_MODEL">>, <<"SUPPORTED_32_BIT_ABIS">>,
          <<"SUPPORTED_64_BIT_ABIS">>, <<"SUPPORTED_ABIS">>>>))

AndroidUtilsC15 ==
  More(<<"Build">>,
      GetsStatic("Object", <<<<"TAGS">>>>)
   \o GetsStatic("Long", <<<<"TIME">>>>)
   \o GetsStatic("Object", <<<<"TYPE">>, <<"USER">>>>))
  \o Section(<<"HashMap">>,
      <<New(<<0>>), New(<<1>>), New(<<2>>), New(<<3>>), Calls("Int", "size", <<>>),
        Calls("Boolean", "isEmpty", <<>>)>>)

AndroidUtilsC16 ==
  More(<<"HashMap">>,
      <<Calls("Object", "get", <<0>>), Calls("Boolean", "containsKey", <<>>),
        Calls("Object", "put", <<>>), Calls("Void", "putAll", <<>>),
        Calls("Object", "remove", <<>>), Calls("Void", "clear", <<>>),
        Calls("Boolean", "containsValue", <<>>), Calls("Object", "keySet", <<>>),
        Calls("Object", "values", <<>>)>>)

AndroidUtilsC17 ==
  More(<<"HashMap">>,
      <<Calls("Object", "entrySet", <<>>), Calls("Object", "getOrDefault", <<>>),
        Calls("Object", "putIfAbsent", <<>>), Calls("Boolean", "remove", <<1>>),
        Calls("Boolean", "replace", <<>>), Calls("Object", "replace", <<1>>),
        Calls("Object", "computeIfAbsent", <<>>),
        Calls("Object", "computeIfPresent", <<>>)>>)

AndroidUtilsC18 ==
  More(<<"HashMap">>,
      <<Calls("Object", "compute", <<>>), Calls("Object", "merge", <<>>),
        Calls("Void", "forEach", <<>>), Calls("Void", "replaceAll", <<>>),
        Calls("Object", "clone", <<>>)>>)

KotlinPluginC ==
  Section(<<"Example">>,
      <<New(<<0>>), Calls("Object", "thinkBeforeAnswering", <<>>)>>)

NotificationPluginC ==
  Section(<<"Notifications">>,
      <<New(<<0>>), CallsStatic("Void", "showNotification", <<>>)>>)

SimplePackageC ==
  Section(<<"Fields">>,
      <<New(<<0>>), GetStatic("Int", <<"amount">>), SetStatic("Int", <<"amount">>),
        GetStatic("Double", <<"pi">>), SetStatic("Double", <<"pi">>),
        GetStatic("Char", <<"asterisk">>), SetStatic("Char", <<"asterisk">>),
        GetStatic("Object", <<"name">>), SetStatic("Object", <<"name">>),
        Get("Object", <<"i">>), Set("Object", <<"i">>), Get("Long", <<"trillion">>),
        Set("Long", <<"trillion">>), Get("Boolean", <<"isAchillesDead">>),
        Set("Boolean", <<"isAchillesDead">>),
        Get("Object", <<"bestFighterInGreece">>),
        Set("Object", <<"bestFighterInGreece">>), Get("Object", <<"random">>),
        Set("Object", <<"random">>), GetStatic("Char", <<"euroSymbol">>),
        SetStatic("Char", <<"euroSymbol">>)>>)
  \o Section(<<"Fields_Nested">>,
      <<New(<<0>>), Get("Long", <<"hundred">>), Set("Long", <<"hundred">>),
        GetStatic("Object", <<"BEST_GOD">>), SetStatic("Object", <<"BEST_GOD">>)>>)

-----------------------------------------------------------------------------
(* The libraries.  A class whose superclass is not given extends Object. *)

Object == <<>>

ClassOf(name, superclass, java) ==
  [name |-> Named(name), super |-> superclass, java |-> java]

AndroidUtilsClasses ==
  <<ClassOf(<<"AndroidUtils">>, Object, AndroidUtilsJava),
    ClassOf(<<"EmojiCompat">>, Object, EmojiCompatJava),
    ClassOf(<<"EmojiCompat_Config">>, Object, EmojiCompatConfigJava),
    ClassOf(<<"EmojiCompat_MetadataRepoLoaderCallback">>, Object, EmojiCompatMetadataRepoLoaderCallbackJava),
    ClassOf(<<"EmojiCompat_GlyphChecker">>, Object, EmojiCompatGlyphCheckerJava),
    ClassOf(<<"EmojiCompat_MetadataRepoLoader">>, Object, EmojiCompatMetadataRepoLoaderJava),
    ClassOf(<<"EmojiCompat_InitCallback">>, Object, EmojiCompatInitCallbackJava),
    ClassOf(<<"EmojiCompat_DefaultSpanFactory">>, Object, EmojiCompatDefaultSpanFactoryJava),
    ClassOf(<<"EmojiCompat_SpanFactory">>, Object, EmojiCompatSpanFactoryJava),
    ClassOf(<<"DefaultEmojiCompatConfig">>, Object, DefaultEmojiCompatConfigJava),
    ClassOf(<<"DefaultEmojiCompatConfig_DefaultEmojiCompatConfigHelper_API", 2, 8>>, <<"DefaultEmojiCompatConfig_DefaultEmojiCompatConfigHelper_API", 1, 9>>, HelperAPI28Java),
    ClassOf(<<"DefaultEmojiCompatConfig_DefaultEmojiCompatConfigHelper_API", 1, 9>>, <<"DefaultEmojiCompatConfig_DefaultEmojiCompatConfigHelper">>, HelperAPI19Java),
    ClassOf(<<"DefaultEmojiCompatConfig_DefaultEmojiCompatConfigHelper">>, Object, HelperJava),
    ClassOf(<<"DefaultEmojiCompatConfig_DefaultEmojiCompatConfigFactory">>, Object, FactoryJava),
    ClassOf(<<"Build_Partition">>, Object, BuildPartitionJava),
    ClassOf(<<"Build_VERSION">>, Object, BuildVERSIONJava),
    ClassOf(<<"Build_VERSION_CODES">>, Object, BuildVERSIONCODESJava),
    ClassOf(<<"Build">>, Object, BuildJava),
    ClassOf(<<"HashMap">>, Object, HashMapJava)>>

AndroidUtilsLibrary ==
  PreludeC \o AndroidUtilsC1 \o AndroidUtilsC2 \o AndroidUtilsC3 \o AndroidUtilsC4
    \o AndroidUtilsC5 \o AndroidUtilsC6 \o AndroidUtilsC7 \o AndroidUtilsC8 \o AndroidUtilsC9
    \o AndroidUtilsC10 \o AndroidUtilsC11 \o AndroidUtilsC12 \o AndroidUtilsC13 \o AndroidUtilsC14
    \o AndroidUtilsC15 \o AndroidUtilsC16 \o AndroidUtilsC17 \o AndroidUtilsC18

Libraries ==
  {[classes |-> AndroidUtilsClasses, committed |-> AndroidUtilsLibrary],
   [classes |-> <<ClassOf(<<"Example">>, Object, ExampleJava)>>,
    committed |-> PreludeC \o KotlinPluginC],
   [classes |-> <<ClassOf(<<"Notifications">>, Object, NotificationsJava)>>,
    committed |-> PreludeC \o NotificationPluginC],
   [classes |-> <<ClassOf(<<"Fields">>, Object, FieldsJava),
                  ClassOf(<<"Fields_Nested">>, Object, FieldsNestedJava)>>,
    committed |-> PreludeC \o SimplePackageC]}

=============================================================================
