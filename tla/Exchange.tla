------------------------------ MODULE Exchange ------------------------------
(***************************************************************************)
(* What the playground promises about one answer of a conversation: it is  *)
(* asked for, grows, ends, and from then on changes only by the user's     *)
(* hand; a page that comes back may show an older state of it, but never   *)
(* shows it as if it were still on its way.                                *)
(***************************************************************************)
EXTENDS Naturals, Sequences

CONSTANTS Key,     \* the answer
          Notice   \* text that is not part of any answer

VARIABLES answer,  \* its phase and its text
          session  \* how often the page has been opened

OnItsWay == {"asked", "growing"}

Init == answer.phase \in {"absent", "ended"} /\ session = 0

(* a becomes b.                                                            *)
Ask(a, b) == a.phase = "absent" /\ b.phase = "asked" /\ b.text = <<>>

Grow(a, b) ==
    /\ a.phase \in OnItsWay /\ b.phase = "growing"
    /\ Len(b.text) >= Len(a.text)
    /\ \A i \in 1 .. Len(b.text) :
        b.text[i] = IF i <= Len(a.text) THEN a.text[i] ELSE Key

End(a, b) ==
    /\ a.phase \in OnItsWay /\ b.phase = "ended"
    /\ \A i \in 1 .. Len(b.text) : b.text[i] \in {Key, Notice}

Amend(a, b) == a.phase # "absent" /\ b.phase = a.phase /\ b.text = <<Notice>>

Drop(a, b) == b.phase = "absent"

Change(a, b) == Ask(a, b) \/ Grow(a, b) \/ End(a, b) \/ Amend(a, b) \/ Drop(a, b)

Step == session' = session /\ Change(answer, answer')

(* The page was left or reloaded.                                          *)
Restart == session' = session + 1 /\ answer'.phase \notin OnItsWay

Next == Step \/ Restart

Same == UNCHANGED <<answer, session>>

Spec == Init /\ [][Next]_<<answer, session>>
=============================================================================
