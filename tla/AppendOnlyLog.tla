--------------------------- MODULE AppendOnlyLog ---------------------------
(***************************************************************************)
(* What write-once (WORM) storage promises its readers: entries are added  *)
(* at the end, one at a time, and are never changed, reordered or removed; *)
(* a reader sees a prefix of them, and that prefix only ever grows.        *)
(* Ledger is shown to implement this specification.                        *)
(***************************************************************************)
EXTENDS Naturals, Sequences

CONSTANT Entries

VARIABLES
    entries,   \* everything appended so far, in log order
    visible    \* how many of them a reader may see

vars == <<entries, visible>>

Init ==
    /\ entries = << >>
    /\ visible = 0

\* Append one entry; readers may or may not see it at once.
AppendEntry ==
    \E e \in Entries :
        /\ entries' = Append(entries, e)
        /\ visible' \in {visible, Len(entries')}

\* Let readers see more of what has been appended.
Reveal ==
    /\ visible' \in (visible + 1) .. Len(entries)
    /\ UNCHANGED entries

Next == AppendEntry \/ Reveal

Spec == Init /\ [][Next]_vars
=============================================================================
