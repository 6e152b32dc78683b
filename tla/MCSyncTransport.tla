--------------------------- MODULE MCSyncTransport ---------------------------
(***************************************************************************)
(* Hosts for SyncTransport: Android with both modules in one table, a phone *)
(* whose tables each have a part and that has no GlobalEventEmitter, and a *)
(* desktop host with SQL only and fetch on globalThis.                     *)
(***************************************************************************)
EXTENDS SyncTransport, TLC

At(global, bare, eval) == "globalThis" :> global @@ "bare" :> bare @@ "eval" :> eval

Android ==
    [modules |-> At({}, Modules, Modules), httpFetch |-> TRUE,
     runtime |-> At(FALSE, TRUE, FALSE), platform |-> At("none", "android", "none"),
     fetch |-> {"bare"},
     emitters |-> [getJSModule |-> "e1", getApp |-> "e1", runtime |-> "e2"]]

Split ==
    [modules |-> At({"LynxFetchModule"}, {"NativePowerSyncModule"}, {}),
     httpFetch |-> TRUE,
     runtime |-> At(TRUE, FALSE, FALSE), platform |-> At("ios", "none", "none"),
     fetch |-> {},
     emitters |-> [x \in {} |-> "e1"]]

Desktop ==
    [modules |-> At({}, {}, {"NativePowerSyncModule"}), httpFetch |-> FALSE,
     runtime |-> At(FALSE, FALSE, FALSE), platform |-> At("none", "none", "android"),
     fetch |-> {"globalThis", "bare"},
     emitters |-> [getApp |-> "e1"]]

AllHosts == {Android, Split, Desktop}

SameDatabase == [i \in Impls |-> "db"]
=============================================================================
