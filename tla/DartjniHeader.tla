---------------------------- MODULE DartjniHeader ----------------------------
(***************************************************************************)
(* dartjni.h, the header that package:jni compiles and that the generator  *)
(* copies next to the C code it generates: what it defines, in order, and  *)
(* what each definition uses of those before it.  Two libraries compiled   *)
(* from it share one JniContext.                                           *)
(***************************************************************************)
EXTENDS Naturals, Sequences

Entry(name, uses) ==
  [name |-> name, uses |-> uses, platform |-> "any", extern |-> FALSE]

ForPlatform(platform, entries) ==
  [i \in DOMAIN entries |-> [entries[i] EXCEPT !.platform = platform]]

\* Variables that the library which includes the header defines.
Extern(name, uses) == [Entry(name, uses) EXCEPT !.extern = TRUE]

Platforms == <<Entry("FFI_PLUGIN_EXPORT", {}), Entry("thread_local", {}),
               Entry("__ENVP_CAST", {})>>

\* The lock is the first parameter of its operations.
LockOperations ==
  <<Entry("MutexLock", {}), Entry("ConditionVariable", {}),
    Entry("init_lock", {"MutexLock"}), Entry("acquire_lock", {"MutexLock"}),
    Entry("release_lock", {"MutexLock"}), Entry("destroy_lock", {"MutexLock"}),
    Entry("init_cond", {"ConditionVariable"}),
    Entry("signal_cond", {"ConditionVariable"}),
    Entry("wait_for", {"ConditionVariable", "MutexLock"}),
    Entry("destroy_cond", {"ConditionVariable"})>>

WindowsLocks == ForPlatform("windows", LockOperations)

PosixLocks == ForPlatform("posix", LockOperations)

\* The fields of a struct are among its names, since their order is its layout.
Context ==
  <<Entry("CallbackResult", {"MutexLock", "ConditionVariable"}),
    Entry("lock", {"CallbackResult"}), Entry("cond", {"CallbackResult"}),
    Entry("ready", {"CallbackResult"}), Entry("object", {"CallbackResult"}),
    Entry("JniLocks", {"MutexLock"}),
    Entry("classLoadingLock", {"JniLocks"}), Entry("methodLoadingLock", {"JniLocks"}),
    Entry("fieldLoadingLock", {"JniLocks"}),
    Entry("JniContext", {"JniLocks"}),
    Entry("jvm", {"JniContext"}), Entry("classLoader", {"JniContext"}),
    Entry("loadClassMethod", {"JniContext"}), Entry("currentActivity", {"JniContext"}),
    Entry("appContext", {"JniContext"}), Entry("locks", {"JniContext"}),
    Extern("jniEnv", {"thread_local"}), Extern("jni", {"JniContext"})>>

Results ==
  <<Entry("JniType", {}), Entry("JniResult", {}), Entry("JniClassLookupResult", {}),
    Entry("JniPointerResult", {}), Entry("JniExceptionDetails", {})>>

Exported ==
  <<Entry("JniAccessorsStruct", {"JniResult", "JniClassLookupResult", "JniPointerResult",
                                 "JniExceptionDetails"}),
    Entry("GetAccessors", {"FFI_PLUGIN_EXPORT", "JniAccessorsStruct"}),
    Entry("GetJavaVM", {"FFI_PLUGIN_EXPORT"}), Entry("GetJniEnv", {"FFI_PLUGIN_EXPORT"}),
    Entry("SpawnJvm", {"FFI_PLUGIN_EXPORT"}), Entry("FindClass", {"FFI_PLUGIN_EXPORT"}),
    Entry("GetClassLoader", {"FFI_PLUGIN_EXPORT"}),
    Entry("GetApplicationContext", {"FFI_PLUGIN_EXPORT"}),
    Entry("GetCurrentActivity", {"FFI_PLUGIN_EXPORT"})>>

\* Each looks up something under a lock.
Loading(name, lock, lookup) ==
  Entry(name, {"jni", "locks", "acquire_lock", "release_lock", lock} \cup lookup)

Loaders ==
  <<Entry("attach_thread", {"jniEnv", "jni", "jvm", "__ENVP_CAST"}),
    Entry("load_class_platform", {"jniEnv", "jni", "classLoader", "loadClassMethod"}),
    Loading("load_class_local_ref", "classLoadingLock", {"load_class_platform"}),
    Loading("load_class_global_ref", "classLoadingLock", {"load_class_platform", "jniEnv"}),
    Loading("load_method", "methodLoadingLock", {"jniEnv"}),
    Loading("load_static_method", "methodLoadingLock", {"jniEnv"}),
    Loading("load_field", "fieldLoadingLock", {"jniEnv"}),
    Loading("load_static_field", "fieldLoadingLock", {"jniEnv"}),
    Entry("to_global_ref", {"jniEnv"})>>

ForGeneratedCode ==
  <<Entry("GetJniContextPtr", {"FFI_PLUGIN_EXPORT", "JniContext"}),
    Extern("context_getter", {"JniContext"}), Extern("env_getter", {}),
    Extern("setJniGetters", {"FFI_PLUGIN_EXPORT", "JniContext"}),
    Entry("load_env", {"jniEnv", "jni", "context_getter", "env_getter"}),
    Entry("check_exception", {"jniEnv", "to_global_ref"}),
    Entry("to_global_ref_result", {"JniResult", "check_exception", "to_global_ref"}),
    Entry("InitDartApiDL", {"FFI_PLUGIN_EXPORT"}),
    Entry("DartException__ctor", {"FFI_PLUGIN_EXPORT", "JniResult"}),
    Entry("PortContinuation__ctor", {"FFI_PLUGIN_EXPORT", "JniResult"}),
    Entry("PortProxy__newInstance", {"FFI_PLUGIN_EXPORT", "JniResult"}),
    Entry("resultFor", {"FFI_PLUGIN_EXPORT", "CallbackResult"})>>

DartjniH ==
  Platforms \o WindowsLocks \o PosixLocks \o Context \o Results \o Exported
    \o Loaders \o ForGeneratedCode

-----------------------------------------------------------------------------
(* The copy in the library android_utils: the names it defines, in order. *)

CopiedLocks ==
  <<"MutexLock", "ConditionVariable", "init_lock", "acquire_lock", "release_lock",
    "destroy_lock", "init_cond", "signal_cond", "wait_for", "destroy_cond">>

CopiedPlatforms ==
  <<"FFI_PLUGIN_EXPORT", "thread_local", "__ENVP_CAST">> \o CopiedLocks \o CopiedLocks

CopiedTypes ==
  <<"CallbackResult", "lock", "cond", "ready", "object",
    "JniLocks", "classLoadingLock", "methodLoadingLock", "fieldLoadingLock",
    "JniContext", "jvm", "classLoader", "loadClassMethod", "currentActivity",
    "appContext", "locks", "jniEnv", "jni", "JniType", "JniResult",
    "JniClassLookupResult", "JniPointerResult", "JniExceptionDetails",
    "JniAccessorsStruct", "GetAccessors", "GetJavaVM", "GetJniEnv", "SpawnJvm",
    "FindClass", "GetClassLoader", "GetApplicationContext", "GetCurrentActivity">>

CopiedFunctions ==
  <<"attach_thread", "load_class_platform", "load_class_local_ref",
    "load_class_global_ref", "load_method", "load_static_method", "load_field",
    "load_static_field", "to_global_ref", "GetJniContextPtr", "context_getter",
    "env_getter", "setJniGetters", "load_env", "check_exception",
    "to_global_ref_result", "InitDartApiDL", "DartException__ctor",
    "PortContinuation__ctor", "PortProxy__newInstance", "resultFor">>

CopiedHeader == CopiedPlatforms \o CopiedTypes \o CopiedFunctions

=============================================================================
