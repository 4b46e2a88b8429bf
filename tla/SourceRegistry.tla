--------------------------- MODULE SourceRegistry ---------------------------
(***************************************************************************)
(* What a source store promises to the callers of register_bytes, without  *)
(* files, locks or temporary states: there is one instant between the call *)
(* and its end at which the source has the version, with the capture time  *)
(* of whoever registered it first; a call that fails has either reached    *)
(* that instant or left nothing behind.                                    *)
(***************************************************************************)
CONSTANTS
    Callers,    \* calls of register_bytes
    Times       \* capture times

VARIABLES
    rows,       \* the registered records
    asked,      \* the source and the version each call is about
    call        \* "pending", "committed", "returned" or "failed"

regVars == <<rows, asked, call>>

Has(a) == \E r \in rows : r.src = a.src /\ r.ver = a.ver

RegInit ==
    /\ rows = {}
    /\ call = [w \in Callers |-> "pending"]

Becomes(w, phase) == call' = [call EXCEPT ![w] = phase] /\ UNCHANGED asked

Commit(w) ==
    /\ call[w] = "pending"
    /\ \/ Has(asked[w]) /\ UNCHANGED rows
       \/ /\ ~Has(asked[w])
          /\ \E t \in Times :
                rows' = rows \cup {[src |-> asked[w].src, ver |-> asked[w].ver, time |-> t]}
    /\ Becomes(w, "committed")

Return(w) ==
    /\ call[w] = "committed"
    /\ Becomes(w, "returned")
    /\ UNCHANGED rows

Fail(w) ==
    /\ call[w] \in {"pending", "committed"}
    /\ Becomes(w, "failed")
    /\ UNCHANGED rows

RegNext == \E w \in Callers : Commit(w) \/ Return(w) \/ Fail(w)

RegSpec == RegInit /\ [][RegNext]_regVars
=============================================================================
