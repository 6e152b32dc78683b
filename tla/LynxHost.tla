------------------------------ MODULE LynxHost ------------------------------
(***************************************************************************)
(* src/host.ts: what the client finds of its host.  A binding may be a     *)
(* property of globalThis, an identifier the bundler keeps, or one that    *)
(* only eval reaches, and each lookup has its own order.  Everything is    *)
(* looked up at the moment of use, so these are operators on a host that   *)
(* changes while the client runs; the module has no state of its own.      *)
(***************************************************************************)
EXTENDS Naturals, Sequences, SequencesExt

(* host.modules[p]   the native modules bound at place p
   host.runtime[p]   a `lynx` is bound at p
   host.platform[p]  what SystemInfo says at p, "none" when it is not there
   host.fetch        the places of a fetch function
   host.emitters     where the runtime has a GlobalEventEmitter, and which   *)
Places == <<"globalThis", "bare", "eval">>
Modules == {"NativePowerSyncModule", "LynxFetchModule"}

(* The first of `order` among `places`, as a set with at most one element. *)
FirstOf(order, places) ==
    LET hits == {k \in 1..Len(order) : order[k] \in places}
    IN  {order[k] : k \in {n \in hits : \A m \in hits : n <= m}}

Bound(host, module) == {p \in ToSet(Places) : module \in host.modules[p]}

(* lookupNativePowerSyncModule and lookupLynxFetchModule: where the module is
   found.  The two may come from different tables.                          *)
LookupModule(host, module) ==
    FirstOf(Places, Bound(host, module))

(* nativeModules(): one table put together from the two lookups.  When both
   find nothing the code returns a table that has neither.                  *)
NativeModules(host) == {m \in Modules : LookupModule(host, m) # {}}

(* runtime(): the bare identifier first, so that the bundler keeps it. *)
Runtime(host) ==
    FirstOf(<<"bare", "globalThis", "eval">>,
            {p \in ToSet(Places) : host.runtime[p]})

Platform(host) ==
    {host.platform[p] :
        p \in FirstOf(Places, {q \in ToSet(Places) : host.platform[q] # "none"})}

HostIsAndroid(host) == Platform(host) = {"android"}

FetchImpl(host) ==
    FirstOf(<<"globalThis", "bare">>, host.fetch)

(* collectGlobalEventEmitters: those of getJSModule, of getApp() and of the
   runtime itself, each once; in which order is nobody's concern here.      *)
GlobalEventEmitters(host) ==
    IF Runtime(host) = {} THEN {}
    ELSE {host.emitters[source] :
            source \in {"getJSModule", "getApp", "runtime"} \cap DOMAIN host.emitters}
=============================================================================
