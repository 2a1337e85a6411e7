----------------------------- MODULE MCKeyboard -----------------------------
(* Two keys to type, a text of two keys and one of one.                    *)
EXTENDS Keyboard

CONSTANTS t1, t2, a, b, c

MCTexts == {<<a, b>>, <<c>>}

(* "This one is thread safe, there's a FIFO behind it": with a program     *)
(* that polls, each key the user types is taken.                           *)
TypedIsTaken == Polls => \A k \in Typed : (k \in KeysOf(poked)) ~> (k \in KeysOf(taken))
=============================================================================
