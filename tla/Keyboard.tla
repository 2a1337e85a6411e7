------------------------------ MODULE Keyboard ------------------------------
(***************************************************************************)
(* The keyboard: two bytes of the switches' bank, written by the UI's      *)
(* thread when a key is typed and by the CPU's thread when a paste feeds   *)
(* one, read and cleared by the program (mii.c:598-646, mii_thread.c:103,  *)
(* 145, mii_emu_gl.c:497-522).                                             *)
(*                                                                         *)
(* Nothing is locked, so a step is one read or one write of a byte.  Each  *)
(* key stands for one press: it is typed or pasted once.                   *)
(***************************************************************************)
EXTENDS Naturals, Sequences

CONSTANTS
    Typed,     \* keys the user types
    Texts,     \* texts the user pastes, sequences of keys
    FifoRoom,  \* signals the regulator's FIFO holds
    NoKey

VARIABLES
    akd,      \* SWAKD: the strobe bit and a key
    kbd,      \* SWKBD: a key
    handler,  \* where the CPU's thread is between a read and a write
    typing,   \* the key whose second byte the UI has still to write, or NoKey
    signals,  \* texts on their way to the regulator
    buffer,   \* what is left of paste_buffer, <<>> at its 0
    pasting,  \* whether there is a paste_buffer
    look,     \* the key the program read at C000 with its strobe, or NoKey
    \* History:
    todo,     \* what the user has still to type or paste
    poked,    \* keys in the order they were written to SWAKD
    paced,    \* no key was pressed before the one before it was cleared
    taken,    \* keys the program read and then cleared
    text,     \* the text of the last paste that began
    got,      \* the keys of it among those taken
    alone     \* nothing but that paste has touched the keyboard since

kvars == <<akd, kbd, handler, typing, signals, buffer, pasting, look,
           todo, poked, paced, taken, text, got, alone>>
history == <<poked, paced, taken, text, got, alone>>

KeysOf(t) == {t[n] : n \in DOMAIN t}
Keys == Typed \union UNION {KeysOf(t) : t \in Texts}

ASSUME KeyboardAssumption ==
    /\ NoKey \notin Keys
    /\ FifoRoom \in Nat \ {0}
    /\ \A t \in Texts : t \in Seq(Keys) /\ t # <<>> /\ KeysOf(t) \cap Typed = {}
    /\ \A t, u \in Texts : t # u => KeysOf(t) \cap KeysOf(u) = {}

Run == [at |-> "run", key |-> NoKey]

KInit ==
    /\ akd = [strobe |-> FALSE, key |-> NoKey]
    /\ kbd = NoKey
    /\ handler = Run
    /\ typing = NoKey
    /\ signals = <<>> /\ buffer = <<>> /\ pasting = FALSE
    /\ look = NoKey
    /\ todo = Typed \union Texts
    /\ poked = <<>> /\ taken = <<>> /\ text = <<>> /\ got = <<>>
    /\ alone = TRUE /\ paced = TRUE

-----------------------------------------------------------------------------
(* mii_keypress writes SWAKD and then SWKBD.                               *)

PokeStrobe(k) == /\ akd' = [strobe |-> TRUE, key |-> k]
                 /\ poked' = Append(poked, k)
                 /\ paced' = (paced /\ ~akd.strobe /\ handler.at # "clear")

\* The UI types a key.
Type(k) == /\ typing = NoKey /\ k \in todo
           /\ PokeStrobe(k)
           /\ typing' = k
           /\ todo' = todo \ {k}
           /\ alone' = FALSE
           /\ UNCHANGED <<kbd, handler, signals, buffer, pasting, look,
                          taken, text, got>>

TypeKbd == /\ typing # NoKey
           /\ kbd' = typing
           /\ typing' = NoKey
           /\ UNCHANGED <<akd, handler, signals, buffer, pasting, look, todo, history>>

\* A mutation: the FIFO takes one signal more than it holds.
SentAnyway(t) == IF Len(signals) <= FifoRoom THEN Append(signals, t) ELSE signals

\* The clipboard goes to the regulator, or is lost when the FIFO is full.
Sent(t) == IF Len(signals) < FifoRoom THEN Append(signals, t) ELSE signals

Paste(t) == /\ typing = NoKey /\ t \in todo
            /\ todo' = todo \ {t}
            /\ signals' = Sent(t)
            /\ UNCHANGED <<akd, kbd, handler, typing, buffer, pasting, look, history>>

-----------------------------------------------------------------------------
(* The program.                                                            *)

\* Is it a key of the last paste?
Mine(k) == k \in KeysOf(text)

\* A read of C000 gives SWAKD.
Look == /\ handler = Run
        /\ look' = IF akd.strobe THEN akd.key ELSE NoKey
        /\ UNCHANGED <<akd, kbd, handler, typing, signals, buffer, pasting, todo, history>>

\* An access to C010 reads SWAKD, then writes it without the strobe.
Clear == /\ handler = Run
         /\ handler' = [at |-> "clear", key |-> akd.key]
         /\ UNCHANGED <<akd, kbd, typing, signals, buffer, pasting, look, todo, history>>

\* A mutation: the strobe stays.
ClearedBut(k) == [strobe |-> akd.strobe, key |-> k]

Cleared(k) == [strobe |-> FALSE, key |-> k]

ClearWrite ==
    /\ handler.at = "clear"
    /\ akd' = Cleared(handler.key)
    /\ handler' = Run
    /\ taken' = IF look # NoKey THEN Append(taken, look) ELSE taken
    /\ got' = IF look # NoKey /\ Mine(look) THEN Append(got, look) ELSE got
    /\ alone' = (alone /\ look # NoKey)
    /\ paced' = (paced /\ (akd.strobe => look # NoKey))
    /\ look' = NoKey
    /\ UNCHANGED <<kbd, typing, signals, buffer, pasting, todo, poked, text>>

-----------------------------------------------------------------------------
(* The regulator, between two batches of instructions.                     *)

\* SIGNAL_PASTE: a new text takes the place of what is left of the last.
TakePaste == /\ handler = Run /\ signals # <<>>
             /\ buffer' = Head(signals)
             /\ text' = Head(signals) /\ got' = <<>>
             /\ alone' = TRUE
             /\ pasting' = TRUE
             /\ signals' = Tail(signals)
             /\ UNCHANGED <<akd, kbd, handler, typing, look, todo, poked, paced, taken>>

\* A mutation: a key is fed each frame.
ReadyAlways == buffer # <<>>

\* A mutation: the strobe is tested the wrong way round.
ReadyInverted == buffer # <<>> /\ akd.strobe

\* The key before has been taken.
Ready == buffer # <<>> /\ ~akd.strobe

\* At the end of a frame a text that is done is dropped, or a key is fed.
Frame == /\ handler = Run /\ pasting
         /\ \/ /\ buffer = <<>>
               /\ pasting' = FALSE
               /\ handler' = handler
            \/ /\ Ready
               /\ handler' = [at |-> "feed", key |-> Head(buffer)]
               /\ pasting' = pasting
         /\ UNCHANGED <<akd, kbd, typing, signals, buffer, look, todo, history>>

Feed == /\ handler.at = "feed"
        /\ PokeStrobe(handler.key)
        /\ handler' = [handler EXCEPT !.at = "feedkbd"]
        /\ UNCHANGED <<kbd, typing, signals, buffer, pasting, look, todo,
                       taken, text, got, alone>>

FeedKbd == /\ handler.at = "feedkbd"
           /\ kbd' = handler.key
           /\ buffer' = Tail(buffer)
           /\ handler' = Run
           /\ UNCHANGED <<akd, typing, signals, pasting, look, todo, history>>

Regulator == TakePaste \/ Frame \/ Feed \/ FeedKbd

\* Every access that the program makes of a key it has seen.
Acknowledge == look # NoKey /\ Clear

KNext ==
    \/ \E k \in Typed : Type(k)
    \/ TypeKbd
    \/ \E t \in Texts : Paste(t)
    \/ Look
    \/ Clear
    \/ ClearWrite
    \/ Regulator

\* One thread runs instructions and comes to the end of each frame, whatever the
\* instructions are.  Of the user and the program nothing is assumed.
KFairness == SF_kvars(Regulator) /\ WF_kvars(ClearWrite)

KSpec == KInit /\ [][KNext]_kvars /\ KFairness

-----------------------------------------------------------------------------
(* What the keyboard promises.                                             *)

Maybe == Keys \union {NoKey}

(* Every variable has the values the code can give it.                     *)
KTypeOK ==
    /\ akd \in [strobe : BOOLEAN, key : Maybe]
    /\ {kbd, typing, look} \subseteq Maybe
    /\ handler \in [at : {"run", "clear", "feed", "feedkbd"}, key : Maybe]
    /\ signals \in Seq(Texts) /\ Len(signals) <= FifoRoom
    /\ pasting \in BOOLEAN
    /\ todo \subseteq Typed \union Texts
    /\ {buffer, poked, taken, text, got} \subseteq Seq(Keys)
    /\ KeysOf(buffer) \union KeysOf(got) \subseteq KeysOf(text)
    /\ {alone, paced} \subseteq BOOLEAN

\* The key in the latch that waits for the program.
Unread == IF akd.strobe THEN <<akd.key>> ELSE <<>>

(* Whatever the two writers do between the program's read and its clear,   *)
(* the program takes each press once at most, in the order of the presses. *)
(* There is no FIFO behind mii_keypress: a press is lost when it comes     *)
(* before the one before it is cleared, or when the program clears what it *)
(* has not read.  While neither happens, none is.                          *)
TakenInOrder ==
    /\ \A n \in DOMAIN taken : \A m \in 1..n :
          \E p, q \in DOMAIN poked :
              poked[p] = taken[m] /\ poked[q] = taken[n] /\ (m < n => p < q)
    /\ paced => poked = taken \o Unread

\* What is left of the text, the key that is being fed not counted.
Rest == IF handler.at = "feedkbd" THEN Tail(buffer) ELSE buffer
Latched == IF akd.strobe /\ Mine(akd.key) THEN <<akd.key>> ELSE <<>>

(* A paste that is left alone (no key typed, no text after it, no key      *)
(* thrown away by the program) is delivered whole and in order: what was   *)
(* taken, the key in the latch and the rest of the buffer make the text.   *)
PasteKept == alone => text = got \o Latched \o Rest

\* A program that keeps reading the keyboard and clears what it has read.
Polls == SF_kvars(Look) /\ SF_kvars(Acknowledge)

(* With a program that polls, a paste ends, however much is typed into it. *)
PasteEnds == Polls => (pasting ~> ~pasting)
=============================================================================
