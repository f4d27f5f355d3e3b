--------------------------- MODULE CaptureLedger ---------------------------
(***************************************************************************)
(* What retained capture promises to its readers (Control Tower, closeout, *)
(* a replacement container), whatever processes, crashes and storage       *)
(* failures lie underneath: one ledger of changes that only ever grows at  *)
(* its end, in which a closed workshop admits nothing but control changes, *)
(* and which already holds whatever a caller was told it may publish.      *)
(***************************************************************************)
EXTENDS Naturals, Sequences

CONSTANTS
    Change,     \* what callers ask the journal to retain
    Control,    \* closeout bookkeeping and acknowledgements, admitted after a close
    Closing     \* the control changes that close the workshop

VARIABLES
    ledger,     \* the retained changes, in order
    published   \* the changes something outside the process may have acted on

Entries(s) == {s[i] : i \in 1..Len(s)}

IsPrefix(s, t) == Len(s) <= Len(t) /\ \A i \in 1..Len(s) : s[i] = t[i]

(* Once a closing entry is retained, only control entries follow it. *)
ClosedStaysClosed(s) ==
    \A i, j \in 1..Len(s) : (i < j /\ s[i] \in Closing) => s[j] \in Control

Init == ledger = <<>> /\ published = {}

(* Any number of changes become retained, and any retained change may be  *)
(* published, never one that storage does not hold yet.                   *)
Next ==
    /\ IsPrefix(ledger, ledger')
    /\ Entries(ledger') \subseteq Change
    /\ ClosedStaysClosed(ledger')
    /\ published \subseteq published'
    /\ published' \subseteq Entries(ledger')

Spec == Init /\ [][Next]_<<ledger, published>>
=============================================================================
