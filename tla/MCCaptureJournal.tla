-------------------------- MODULE MCCaptureJournal --------------------------
(* Two app processes of one unit over one store, for TLC.                  *)
EXTENDS CaptureJournalInv, TLC

CONSTANTS p1, p2,               \* containers
          emit, message, close  \* a keyed event, a help message, closeout begin

Processes == {p1, p2}
Calls == {emit, message, close}
KeyedCalls == {emit, close}
CloseCalls == {close}
ProcessSymmetry == Permutations(Processes)
=============================================================================
