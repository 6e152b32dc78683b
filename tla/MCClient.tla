------------------------------ MODULE MCClient ------------------------------
(* Three parts of the JavaScript client that share no state: the adapter, one
   native call with a value of each type, and one body of each shape.  A
   behaviour is one of one part, and the others rest.                       *)
EXTENDS NativeCall, LynxDBAdapter, MCResponseBody

VARIABLE part

hopVars == vars
clientVars == <<part, hopVars, adapterVars, allBodyVars>>

(* Numbers on both sides of the largest safe integer, and an array whose
   numbers are no bytes.                                                    *)
Values ==
    {Null, V("text", <<65>>)}
    \cup {V("ArrayBuffer", b) : b \in {<<1, 2>>, <<>>}}
    \cup {V("Uint8Array", <<3>>), V("array", <<255, 256>>)}
    \cup {V("number", <<n>>) : n \in {-4, 0, 3}}
    \cup {V("bigint", <<n>>) : n \in {-3, 4}}

(* A part that rests does so in one of its initial states. *)
NothingSent == Body(<<>>, NoBits, "module", [kind |-> "nothing"], "json")

ClientInit ==
    /\ part \in {"adapter", "hop", "body"}
    /\ part # "body" => body = NothingSent /\ codec = "helper"
    /\ part # "hop" => host = "desktop"
    /\ AdapterInit /\ Init /\ BodyInit

AdapterPart == AdapterNext /\ UNCHANGED <<hopVars, allBodyVars>>
BodyPart == BodyNext /\ UNCHANGED <<hopVars, adapterVars>>

(* The hop stops when no call is under way, or no handler is left for it, and
   the page puts on no more handlers.                                       *)
HopStops ==
    /\ \A k \in Calls : calls[k].at \notin {"page", "answered"}
    /\ host = "web" => Len(frames) = MaxFrames
    /\ UNCHANGED hopVars
HopPart == (Next \/ HopStops) /\ UNCHANGED <<adapterVars, allBodyVars>>

ClientNext ==
    /\ UNCHANGED part
    /\ \/ part = "adapter" /\ AdapterPart
       \/ part = "hop" /\ HopPart
       \/ part = "body" /\ BodyPart

ClientSpec == ClientInit /\ [][ClientNext]_clientVars

(* The fairness of AdapterFairSpec and of FairSpec, each of its own part.   *)
ClientFairSpec ==
    /\ ClientSpec
    /\ WF_adapterVars(part = "adapter" /\ InitStep)
    /\ \A k \in AppCalls : WF_adapterVars(part = "adapter" /\ Step(k))
    /\ \A k \in Calls :
          /\ WF_hopVars(part = "hop" /\ (Deliver(k) \/ DeliverToOther(k)))
          /\ WF_hopVars(part = "hop" /\ Succeed(k))
          /\ WF_hopVars(part = "hop" /\ Return(k))
=============================================================================
