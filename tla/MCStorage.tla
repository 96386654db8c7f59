----------------------------- MODULE MCStorage ------------------------------
(* One run for what the state store promises: the three backends side by   *)
(* side, a transactional step, messages and events, stream readers, the    *)
(* start of a workflow or child, and a change of a workflow's code.        *)
(* A behaviour explores one of these areas; the others stay as they began. *)
EXTENDS MCBackends, TransactionStep, Messaging, StreamReader,
        RunStart, PatchPoint

CONSTANTS e1, e2, r1, r2, s1, s2, w1, c1, c2, p1, p2
VARIABLE area
storageVars == <<area, vars, txVars, msgVars, streamVars, runVars, patchVars>>

MCModes == {[kind |-> k, ro |-> FALSE] : k \in {"provider", "fast", "external"}}
           \cup {[kind |-> "provider", ro |-> TRUE]}
Receiving(k, execs) ==
    [program |-> <<"recv", "recv">>, clock |-> [k |-> k, m |-> 2],
     senders |-> execs, setters |-> {}]
MCScenes ==
    {Receiving(1, {s1, s2}), Receiving(2, {s1}), Receiving(3, {s1}),
     [program |-> <<"recv", "event">>, clock |-> [k |-> 1, m |-> 2],
      senders |-> {}, setters |-> {w1}]}

Adopting(i) == [id |-> i, keyed |-> TRUE, adopt |-> TRUE]
Rejecting(i) == [id |-> i, keyed |-> TRUE, adopt |-> FALSE]
Direct(i) == [id |-> i, keyed |-> FALSE, adopt |-> FALSE]
MCCallScenes == {(c1 :> Adopting("t1")) @@ (c2 :> Adopting("t2")),
                 (c1 :> Direct("t1")) @@ (c2 :> Direct("t1"))}
MCChildCalls == {Adopting("ch"), Rejecting("ch"), Direct("ch"), Direct("t1")}

(* Executions that set an event, and versions of the code, follow each     *)
(* other.                                                                  *)
ASSUME StorageConditions == OneSetter /\ Rolling = FALSE

Only(a, choice) == area = a \/ choice
StorageInit ==
    /\ area \in {"backends", "transactions", "messages", "streams", "starts", "patches"}
    /\ Init /\ Only("backends", family = "registry")
    /\ TxInit /\ Only("transactions", tmode = [kind |-> "fast", ro |-> FALSE])
    /\ MessagingInit /\ Only("messages", scene.setters # {})
    /\ StreamInit /\ Only("streams", rd.kind = "drain" /\ pstatus = "PENDING")
    /\ RunInit /\ Only("starts", asked[c1].keyed /\ child = Direct("ch"))
    /\ PatchInit
StorageNext ==
    /\ area' = area
    /\ \/ /\ area = "backends" /\ Next
          /\ UNCHANGED <<txVars, msgVars, streamVars, runVars, patchVars>>
       \/ /\ area = "transactions" /\ TxNext
          /\ UNCHANGED <<vars, msgVars, streamVars, runVars, patchVars>>
       \/ /\ area = "messages" /\ MessagingNext
          /\ UNCHANGED <<vars, txVars, streamVars, runVars, patchVars>>
       \/ /\ area = "streams" /\ StreamNext
          /\ UNCHANGED <<vars, txVars, msgVars, runVars, patchVars>>
       \/ /\ area = "starts" /\ RunNext
          /\ UNCHANGED <<vars, txVars, msgVars, streamVars, patchVars>>
       \/ /\ area = "patches" /\ PatchNext
          /\ UNCHANGED <<vars, txVars, msgVars, streamVars, runVars>>
StorageSpec == StorageInit /\ [][StorageNext]_storageVars
=============================================================================
