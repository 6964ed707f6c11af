----------------------------- MODULE HoverCards -----------------------------
(***************************************************************************)
(* The cards of the page for unsupported browsers                          *)
(* (templates/unsupported_browser.js).  A card holds two elements, a plain *)
(* one and one to show while the mouse is over the card; the script finds  *)
(* them by class and adds or removes the class that hides an element.  The *)
(* second element has the class of the first as well, so each query may    *)
(* find either, and the browser may repeat or leave out an event: the      *)
(* elements under the mouse change as it moves.                            *)
(***************************************************************************)
EXTENDS Naturals, FiniteSets

CONSTANTS Cards,
          MaxClasses   \* bound on the copies of one class name

VARIABLES
  highlights,   \* copies of container-hover in the class of each card
  hiddens,      \* copies of hidden in the classes of its two elements
  over          \* history: whether the last event of a card was mouseover

hoverVars == <<highlights, hiddens, over>>

\* In the order of the document.
Elements == {1, 2}
Plain == 1
Hover == 2

HoverInit ==
  /\ highlights = [c \in Cards |-> 0]
  /\ hiddens = [c \in Cards |-> [e \in Elements |-> IF e = Hover THEN 1 ELSE 0]]
  /\ over = [c \in Cards |-> FALSE]

Hidden(c, e) == hiddens[c][e] > 0

\* querySelector returns the first match, if there is one.
First(S) == {e \in S : \A x \in S : e <= x}

\* Both elements have the prefix as a class, only the second prefix-hover.
Exchange(c, hide, show) ==
  IF hide # {} /\ show # {}
  THEN [hiddens EXCEPT ![c] = [e \in Elements |->
         IF e \in show THEN 0 ELSE IF e \in hide THEN hiddens[c][e] + 1 ELSE hiddens[c][e]]]
  ELSE hiddens

\* The listener asks its event for the card: the variable of the loop,
\* `LoopCard', would be the last one.
LoopCard(c) == CHOOSE d \in Cards : TRUE
Target(c) == c

OnHover(c) ==
  LET d == Target(c) IN
  /\ highlights[d] < MaxClasses
  /\ highlights' = [highlights EXCEPT ![d] = @ + 1]
  /\ hiddens' = Exchange(d, First({e \in Elements : ~Hidden(d, e)}), {e \in {Hover} : Hidden(d, e)})
  /\ over' = [over EXCEPT ![c] = TRUE]

OnUnHover(c) ==
  LET d == Target(c) IN
  /\ highlights' = [highlights EXCEPT ![d] = 0]
  /\ hiddens' = Exchange(d, {e \in {Hover} : ~Hidden(d, e)}, First({e \in Elements : Hidden(d, e)}))
  /\ over' = [over EXCEPT ![c] = FALSE]

HoverNext == \E c \in Cards : OnHover(c) \/ OnUnHover(c)

HoverSpec == HoverInit /\ [][HoverNext]_hoverVars

----------------------------------------------------------------------------
(* Properties. *)

\* After any series of events a card shows one of its elements, the second one
\* and its highlight just when the mouse was last seen over that very card.
CardsFollowMouse ==
  \A c \in Cards : /\ Hidden(c, Plain) = over[c] /\ Hidden(c, Hover) = ~over[c]
                   /\ (highlights[c] > 0) = over[c]
=============================================================================
