----------------------------- MODULE InputProofs -----------------------------
(***************************************************************************)
(* What the two input devices promise, the keyboard for every set of keys  *)
(* and texts and every size of the regulator's FIFO, the mouse card for    *)
(* every set of coordinates.                                               *)
(***************************************************************************)
EXTENDS Keyboard, Mouse, SequenceTheorems, TLAPS

(***************************************************************************)
(* The keyboard: the order of what is taken.  The presses that were taken  *)
(* have places in the order of the presses, one after the other; what is   *)
(* still to be taken, the key in the latch or the one the program has seen *)
(* there, comes after all of them.                                         *)
(***************************************************************************)
PlacedBy(f) ==
    /\ \A n \in DOMAIN taken : taken[n] = poked[f[n]]
    /\ \A m, n \in DOMAIN taken : m < n => f[m] < f[n]
    /\ akd.strobe => /\ poked # <<>> /\ akd.key = poked[Len(poked)]
                     /\ \A n \in DOMAIN taken : f[n] < Len(poked)
    /\ look # NoKey => \E p \in DOMAIN poked :
                          /\ look = poked[p]
                          /\ \A n \in DOMAIN taken : f[n] < p
InPlace == \E f \in [DOMAIN taken -> DOMAIN poked] : PlacedBy(f)

(***************************************************************************)
(* The keyboard: a paste.  No key of a text that waits was ever pressed;   *)
(* so when the text comes up nothing of it is in the latch, and what the   *)
(* program has seen is either in the latch still or no part of the text.   *)
(***************************************************************************)
Waits(t) == t \in todo \union KeysOf(signals)
Waiting ==
    /\ \A t \in Texts : Waits(t) => t # text /\ KeysOf(t) \cap KeysOf(poked) = {}
    /\ \A n \in DOMAIN signals :
          /\ signals[n] \notin todo
          /\ \A m \in DOMAIN signals : signals[m] = signals[n] => m = n
    /\ text # <<>> => text \in Texts

WasPoked(k) == k \in KeysOf(poked) \union {NoKey}
Seen == /\ WasPoked(akd.key) /\ WasPoked(look)
        /\ handler.at = "clear" => WasPoked(handler.key)
        /\ look # NoKey => akd.strobe
        /\ handler.at \in {"feed", "feedkbd"} =>
              buffer # <<>> /\ handler.key = Head(buffer)

Undisturbed ==
    alone => /\ look # NoKey /\ (Mine(look) \/ Mine(akd.key)) => look = akd.key
             /\ handler.at = "feed" => ~akd.strobe

\* No press is lost while they are paced: what the program has seen, or is about to
\* clear, is the key in the latch.
NoneLost == paced => /\ poked = taken \o Unread
                     /\ look # NoKey => akd.strobe /\ akd.key = look

KInv == KTypeOK /\ InPlace /\ Waiting /\ Seen /\ Undisturbed /\ PasteKept /\ NoneLost

-----------------------------------------------------------------------------
(* What an operation on a sequence does to its keys.                       *)
LEMMA KeysOfAppend ==
    ASSUME NEW S, NEW s \in Seq(S), NEW e \in S
    PROVE  KeysOf(Append(s, e)) = KeysOf(s) \union {e}
<1>1. /\ DOMAIN s = 1 .. Len(s) /\ Len(s) \in Nat
      /\ DOMAIN Append(s, e) = 1 .. Len(s) + 1
    BY AppendProperties, LenProperties
<1>2. /\ \A n \in 1 .. Len(s) : Append(s, e)[n] = s[n]
      /\ Append(s, e)[Len(s) + 1] = e
    BY AppendProperties
<1>3. 1 .. Len(s) + 1 = (1 .. Len(s)) \union {Len(s) + 1}
    BY <1>1
<1> QED
    BY <1>1, <1>2, <1>3 DEF KeysOf

LEMMA KeysOfParts ==
    ASSUME NEW S, NEW s \in Seq(S), s # <<>>
    PROVE  /\ Head(s) \in KeysOf(s)
           /\ KeysOf(Tail(s)) \subseteq KeysOf(s)
<1>1. /\ DOMAIN s = 1 .. Len(s) /\ Len(s) \in Nat /\ Len(s) # 0
    BY LenProperties, EmptySeq
<1>2. /\ Tail(s) \in Seq(S) /\ Len(Tail(s)) = Len(s) - 1
      /\ \A i \in 1 .. Len(Tail(s)) : Tail(s)[i] = s[i + 1]
    BY HeadTailProperties
<1>3. DOMAIN Tail(s) = 1 .. Len(s) - 1
    BY <1>2, LenProperties
<1>4. Head(s) = s[1]
    BY DEF Head
<1> QED
    BY <1>1, <1>2, <1>3, <1>4 DEF KeysOf

(* A sequence is its head and its tail.                                    *)
LEMMA HeadAndTail ==
    ASSUME NEW S, NEW s \in Seq(S), s # <<>>
    PROVE  s = <<Head(s)>> \o Tail(s)
<1>1. Len(s) \in 1 .. Len(s)
    BY EmptySeq
<1>2. /\ SubSeq(s, 1, Len(s)) = <<s[1]>> \o SubSeq(s, 1 + 1, Len(s))
    BY <1>1, SubSeqRecursiveFirst
<1>3. SubSeq(s, 1, Len(s)) = s /\ SubSeq(s, 2, Len(s)) = Tail(s)
    BY SubSeqFull, TailIsSubSeq
<1> QED
    BY <1>2, <1>3 DEF Head

LEMMA KeysOfType ==
    ASSUME NEW S, NEW s \in Seq(S)
    PROVE  KeysOf(s) \subseteq S
BY LenProperties DEF KeysOf

LEMMA KInitHolds == KInit => KInv
<1> SUFFICES ASSUME KInit PROVE KInv
    OBVIOUS
<1> USE KeyboardAssumption DEF KInit
<1>1. KeysOf(<<>>) = {}
    BY DEF KeysOf
<1>2. KTypeOK
    <2>1. {buffer, poked, taken, text, got} \subseteq Seq(Keys)
        BY EmptySeq
    <2>2. signals \in Seq(Texts) /\ Len(signals) <= FifoRoom
        BY EmptySeq
    <2>3. /\ handler \in [at : {"run", "clear", "feed", "feedkbd"}, key : Maybe]
          /\ akd \in [strobe : BOOLEAN, key : Maybe]
        BY DEF Run, Maybe
    <2>4. {kbd, typing, look} \subseteq Maybe
        BY DEF Maybe
    <2> QED
        BY <1>1, <2>1, <2>2, <2>3, <2>4 DEF KTypeOK
<1>3. InPlace
    <2>1. PlacedBy(<<>>) /\ <<>> \in [DOMAIN taken -> DOMAIN poked]
        BY DEF PlacedBy
    <2> QED
        BY <2>1 DEF InPlace
<1>4. Waiting
    BY <1>1 DEF Waiting, Waits
<1>5. Seen /\ Undisturbed
    BY DEF Seen, Undisturbed, WasPoked, Run
<1>6. PasteKept
    BY ConcatEmptySeq, EmptySeq DEF PasteKept, Latched, Rest, Run
<1>7. NoneLost
    BY ConcatEmptySeq, EmptySeq DEF NoneLost, Unread
<1> QED
    BY <1>2, <1>3, <1>4, <1>5, <1>6, <1>7 DEF KInv

-----------------------------------------------------------------------------
(* No step of the two threads breaks a type.                               *)
LEMMA KTypeStep == KTypeOK /\ Seen /\ [KNext]_kvars => KTypeOK'
<1> SUFFICES ASSUME KTypeOK, Seen, [KNext]_kvars PROVE KTypeOK'
    OBVIOUS
<1> USE KeyboardAssumption DEF KTypeOK, history
<1>0. Keys \subseteq Maybe /\ NoKey \in Maybe
    BY DEF Maybe
<1>1. ASSUME NEW k \in Typed, Type(k) PROVE KTypeOK'
    <2>1. k \in Keys
        BY DEF Keys
    <2>2. poked' \in Seq(Keys)
        BY <1>1, <2>1, AppendProperties DEF Type, PokeStrobe
    <2>3. akd' \in [strobe : BOOLEAN, key : Maybe]
        BY <1>0, <1>1, <2>1 DEF Type, PokeStrobe
    <2> QED
        BY <1>0, <1>1, <2>1, <2>2, <2>3 DEF Type, PokeStrobe
<1>2. CASE TypeKbd
    BY <1>0, <1>2 DEF TypeKbd
<1>3. ASSUME NEW t \in Texts, Paste(t) PROVE KTypeOK'
    <2>1. signals' \in Seq(Texts) /\ Len(signals') <= FifoRoom
        BY <1>3, AppendProperties, LenProperties DEF Paste, Sent
    <2> QED
        BY <1>3, <2>1 DEF Paste
<1>4. CASE Look
    BY <1>0, <1>4 DEF Look
<1>5. CASE Clear
    BY <1>5 DEF Clear
<1>6. CASE ClearWrite
    <2>1. look # NoKey => look \in Keys
        BY DEF Maybe
    <2>2. {taken', got'} \subseteq Seq(Keys)
        BY <1>6, <2>1, AppendProperties DEF ClearWrite
    <2>3. KeysOf(got') \subseteq KeysOf(text)
        BY <1>6, <2>1, KeysOfAppend DEF ClearWrite, Mine
    <2>4. akd' \in [strobe : BOOLEAN, key : Maybe]
        BY <1>6 DEF ClearWrite, Cleared
    <2>5. handler' \in [at : {"run", "clear", "feed", "feedkbd"}, key : Maybe]
        BY <1>0, <1>6 DEF ClearWrite, Run
    <2>6. {alone', paced'} \subseteq BOOLEAN
        BY <1>6 DEF ClearWrite
    <2>7. {kbd', typing', look'} \subseteq Maybe
        BY <1>0, <1>6 DEF ClearWrite
    <2> QED
        BY <1>6, <2>2, <2>3, <2>4, <2>5, <2>6, <2>7 DEF ClearWrite
<1>7. CASE TakePaste
    <2>1. /\ Head(signals) \in Texts /\ Tail(signals) \in Seq(Texts)
          /\ Len(Tail(signals)) <= FifoRoom
        BY <1>7, HeadTailProperties, LenProperties DEF TakePaste
    <2>2. {buffer', text', got'} \subseteq Seq(Keys)
        BY <1>7, <2>1, EmptySeq DEF TakePaste
    <2>3. KeysOf(<<>>) = {}
        BY DEF KeysOf
    <2> QED
        BY <1>7, <2>1, <2>2, <2>3 DEF TakePaste
<1>8. CASE Frame
    <2>1. CASE buffer = <<>> /\ handler' = handler /\ pasting' = FALSE
        BY <1>8, <2>1 DEF Frame
    <2>2. CASE buffer # <<>> /\ handler' = [at |-> "feed", key |-> Head(buffer)]
               /\ pasting' = pasting
        <3>1. Head(buffer) \in Keys
            BY <2>2, HeadTailProperties
        <3>2. handler' \in [at : {"run", "clear", "feed", "feedkbd"}, key : Maybe]
            BY <1>0, <2>2, <3>1
        <3> QED
            BY <1>8, <2>2, <3>2 DEF Frame
    <2> QED
        BY <1>8, <2>1, <2>2 DEF Frame, Ready
<1>9. CASE Feed
    <2>1. handler.key \in Keys
        BY <1>9, HeadTailProperties DEF Feed, Seen
    <2>2. poked' \in Seq(Keys)
        BY <1>9, <2>1, AppendProperties DEF Feed, PokeStrobe
    <2>3. akd' \in [strobe : BOOLEAN, key : Maybe]
        BY <1>0, <1>9, <2>1 DEF Feed, PokeStrobe
    <2> QED
        BY <1>9, <2>2, <2>3 DEF Feed, PokeStrobe
<1>10. CASE FeedKbd
    <2>1. buffer # <<>>
        BY <1>10 DEF FeedKbd, Seen
    <2>2. buffer' \in Seq(Keys) /\ KeysOf(buffer') \subseteq KeysOf(buffer)
        BY <1>10, <2>1, HeadTailProperties, KeysOfParts DEF FeedKbd
    <2>3. handler' \in [at : {"run", "clear", "feed", "feedkbd"}, key : Maybe]
        BY <1>0, <1>10 DEF FeedKbd, Run
    <2>4. kbd' \in Maybe
        BY <1>10 DEF FeedKbd
    <2> QED
        BY <1>10, <2>2, <2>3, <2>4 DEF FeedKbd
<1>11. CASE UNCHANGED kvars
    BY <1>11 DEF kvars
<1> QED
    BY <1>1, <1>2, <1>3, <1>4, <1>5, <1>6, <1>7, <1>8, <1>9, <1>10, <1>11
       DEF KNext, Regulator

-----------------------------------------------------------------------------
(* A press that is added comes after all places, those that are taken and  *)
(* the one the program has seen.                                           *)
LEMMA PressInPlace ==
    ASSUME KTypeOK, InPlace, NEW k \in Keys, PokeStrobe(k),
           UNCHANGED <<taken, look>>
    PROVE  InPlace'
<1>1. /\ poked \in Seq(Keys) /\ taken \in Seq(Keys)
      /\ akd' = [strobe |-> TRUE, key |-> k] /\ poked' = Append(poked, k)
    BY DEF KTypeOK, PokeStrobe
<1>2. /\ DOMAIN poked = 1 .. Len(poked) /\ Len(poked) \in Nat
      /\ poked' \in Seq(Keys) /\ poked' # <<>> /\ Len(poked') = Len(poked) + 1
      /\ DOMAIN poked' = 1 .. Len(poked) + 1
      /\ \A n \in 1 .. Len(poked) : poked'[n] = poked[n]
      /\ poked'[Len(poked) + 1] = k
    BY <1>1, LenProperties, AppendProperties
<1>3. PICK f \in [DOMAIN taken -> DOMAIN poked] : PlacedBy(f)
    BY DEF InPlace
<1>4. f \in [DOMAIN taken' -> DOMAIN poked']
    BY <1>2, <1>3
<1>5. PlacedBy(f)'
    <2>1. \A n \in DOMAIN taken : f[n] \in 1 .. Len(poked)
        BY <1>2
    <2>2. \A n \in DOMAIN taken : taken[n] = poked'[f[n]] /\ f[n] < Len(poked')
        BY <1>2, <1>3, <2>1 DEF PlacedBy
    <2>3. look # NoKey => \E p \in DOMAIN poked' :
                             look = poked'[p] /\ \A n \in DOMAIN taken : f[n] < p
        BY <1>2, <1>3 DEF PlacedBy
    <2>4. akd'.key = poked'[Len(poked')]
        BY <1>1, <1>2
    <2> QED
        BY <1>2, <1>3, <2>2, <2>3, <2>4 DEF PlacedBy
<1> QED
    BY <1>4, <1>5 DEF InPlace

(* What is taken next is given the place of the key that was seen.         *)
LEMMA TakenInPlace ==
    ASSUME KTypeOK, InPlace, ClearWrite
    PROVE  InPlace'
<1> USE DEF ClearWrite
<1>1. PICK f \in [DOMAIN taken -> DOMAIN poked] : PlacedBy(f)
    BY DEF InPlace
<1>2. ~akd'.strobe /\ look' = NoKey /\ poked' = poked
    BY DEF Cleared
<1>3. CASE look = NoKey
    <2>1. PlacedBy(f)'
        BY <1>1, <1>2, <1>3 DEF PlacedBy
    <2> QED
        BY <1>3, <1>2, <2>1 DEF InPlace
<1>4. CASE look # NoKey
    <2>1. PICK p \in DOMAIN poked : /\ look = poked[p]
                                    /\ \A n \in DOMAIN taken : f[n] < p
        BY <1>1, <1>4 DEF PlacedBy
    <2>2. look \in Keys /\ taken \in Seq(Keys) /\ poked \in Seq(Keys)
        BY <1>4 DEF KTypeOK, Maybe
    <2>3. /\ DOMAIN taken = 1 .. Len(taken) /\ Len(taken) \in Nat
          /\ taken' = Append(taken, look) /\ DOMAIN taken' = 1 .. Len(taken) + 1
          /\ \A n \in 1 .. Len(taken) : taken'[n] = taken[n]
          /\ taken'[Len(taken) + 1] = look
        BY <1>4, <2>2, LenProperties, AppendProperties
    <2>4. DOMAIN poked \subseteq Nat
        BY <2>2, LenProperties
    <2>5. PICK g \in [DOMAIN taken' -> DOMAIN poked'] :
                 g = [n \in DOMAIN taken' |-> IF n \in DOMAIN taken THEN f[n] ELSE p]
        BY <1>1, <1>2, <2>1
    <2>6. /\ \A n \in DOMAIN taken : g[n] = f[n]
          /\ g[Len(taken) + 1] = p
        BY <2>3, <2>5
    <2>7. \A n \in DOMAIN taken' : taken'[n] = poked[g[n]]
        BY <1>1, <2>1, <2>3, <2>6 DEF PlacedBy
    <2>8. \A m, n \in DOMAIN taken' : m < n => g[m] < g[n]
        <3> SUFFICES ASSUME NEW m \in DOMAIN taken', NEW n \in DOMAIN taken', m < n
                     PROVE  g[m] < g[n]
            OBVIOUS
        <3>1. m \in DOMAIN taken
            BY <2>3
        <3>2. CASE n \in DOMAIN taken
            BY <1>1, <2>6, <3>1, <3>2 DEF PlacedBy
        <3>3. CASE n = Len(taken) + 1
            BY <2>1, <2>6, <3>1, <3>3
        <3> QED
            BY <2>3, <3>2, <3>3
    <2>9. PlacedBy(g)'
        BY <1>2, <2>7, <2>8 DEF PlacedBy
    <2> QED
        BY <2>9 DEF InPlace
<1> QED
    BY <1>3, <1>4

LEMMA OrderStep == KTypeOK /\ Seen /\ InPlace /\ [KNext]_kvars => InPlace'
<1> SUFFICES ASSUME KTypeOK, Seen, InPlace, [KNext]_kvars PROVE InPlace'
    OBVIOUS
<1> USE DEF history
<1>0. UNCHANGED <<akd, look, poked, taken>> => InPlace'
    BY DEF InPlace, PlacedBy
<1>1. ASSUME NEW k \in Typed, Type(k) PROVE InPlace'
    BY <1>1, PressInPlace DEF Type, Keys
<1>2. CASE TypeKbd
    BY <1>0, <1>2 DEF TypeKbd
<1>3. ASSUME NEW t \in Texts, Paste(t) PROVE InPlace'
    BY <1>0, <1>3 DEF Paste
<1>4. CASE Look
    <2>1. PICK f \in [DOMAIN taken -> DOMAIN poked] : PlacedBy(f)
        BY DEF InPlace
    <2>2. poked # <<>> => Len(poked) \in DOMAIN poked
        BY EmptySeq, LenProperties DEF KTypeOK
    <2>3. UNCHANGED <<akd, poked, taken>>
        BY <1>4 DEF Look
    <2>4. look' # NoKey => akd.strobe /\ look' = akd.key
        BY <1>4 DEF Look
    <2>5. look' # NoKey => \E p \in DOMAIN poked :
                              /\ look' = poked[p]
                              /\ \A n \in DOMAIN taken : f[n] < p
        BY <2>1, <2>2, <2>4 DEF PlacedBy
    <2>6. PlacedBy(f)'
        BY <2>1, <2>3, <2>5 DEF PlacedBy
    <2> QED
        BY <2>3, <2>6 DEF InPlace
<1>5. CASE Clear
    BY <1>0, <1>5 DEF Clear
<1>6. CASE ClearWrite
    BY <1>6, TakenInPlace
<1>7. CASE TakePaste
    BY <1>0, <1>7 DEF TakePaste
<1>8. CASE Frame
    BY <1>0, <1>8 DEF Frame
<1>9. CASE Feed
    <2>1. handler.key \in Keys
        BY <1>9, HeadTailProperties DEF Feed, Seen, KTypeOK
    <2> QED
        BY <1>9, <2>1, PressInPlace DEF Feed
<1>10. CASE FeedKbd
    BY <1>0, <1>10 DEF FeedKbd
<1>11. CASE UNCHANGED kvars
    BY <1>0, <1>11 DEF kvars
<1> QED
    BY <1>1, <1>2, <1>3, <1>4, <1>5, <1>6, <1>7, <1>8, <1>9, <1>10, <1>11
       DEF KNext, Regulator

-----------------------------------------------------------------------------
(* A text that waits is not the one that is fed, and none of its keys was  *)
(* ever pressed.                                                           *)
LEMMA WaitingStep == KTypeOK /\ Seen /\ Waiting /\ [KNext]_kvars => Waiting'
<1> SUFFICES ASSUME KTypeOK, Seen, Waiting, [KNext]_kvars PROVE Waiting'
    OBVIOUS
<1> USE DEF history
<1>0. UNCHANGED <<poked, signals, text, todo>> => Waiting'
    BY DEF Waiting, Waits
<1>1. ASSUME NEW k \in Typed, Type(k) PROVE Waiting'
    <2>0. k \in Keys /\ poked \in Seq(Keys)
        BY DEF Keys, KTypeOK
    <2>1. KeysOf(poked') = KeysOf(poked) \union {k}
        BY <1>1, <2>0, KeysOfAppend DEF Type, PokeStrobe
    <2>2. \A t \in Texts : k \notin KeysOf(t)
        BY KeyboardAssumption
    <2> QED
        BY <1>1, <2>1, <2>2 DEF Waiting, Waits, Type
<1>2. CASE TypeKbd
    BY <1>0, <1>2 DEF TypeKbd
<1>3. ASSUME NEW t \in Texts, Paste(t) PROVE Waiting'
    <2>1. CASE signals' = signals
        BY <1>3, <2>1 DEF Paste, Waiting, Waits
    <2>2. CASE signals' = Append(signals, t)
        <3>0. signals \in Seq(Texts)
            BY DEF KTypeOK
        <3>1. /\ DOMAIN signals = 1 .. Len(signals) /\ Len(signals) \in Nat
              /\ DOMAIN signals' = 1 .. Len(signals) + 1
              /\ \A n \in DOMAIN signals : signals'[n] = signals[n]
              /\ signals'[Len(signals) + 1] = t
            BY <2>2, <3>0, LenProperties, AppendProperties
        <3>2. KeysOf(signals') = KeysOf(signals) \union {t}
            BY <2>2, <3>0, KeysOfAppend
        <3>3. t \in todo /\ todo' = todo \ {t} /\ UNCHANGED <<poked, text>>
            BY <1>3 DEF Paste
        <3>4. \A n \in DOMAIN signals' :
                 /\ signals'[n] \notin todo'
                 /\ \A m \in DOMAIN signals' : signals'[m] = signals'[n] => m = n
            BY <3>1, <3>3 DEF Waiting
        <3> QED
            BY <3>2, <3>3, <3>4 DEF Waiting, Waits
    <2> QED
        BY <1>3, <2>1, <2>2 DEF Paste, Sent
<1>4. CASE Look
    BY <1>0, <1>4 DEF Look
<1>5. CASE Clear
    BY <1>0, <1>5 DEF Clear
<1>6. CASE ClearWrite
    BY <1>0, <1>6 DEF ClearWrite
<1>7. CASE TakePaste
    <2>1. /\ DOMAIN signals = 1 .. Len(signals) /\ Len(signals) \in Nat \ {0}
          /\ DOMAIN signals' = 1 .. Len(signals) - 1
          /\ \A n \in DOMAIN signals' : signals'[n] = signals[n + 1]
          /\ Head(signals) = signals[1] /\ signals[1] \in Texts
        BY <1>7, EmptySeq, LenProperties, HeadTailProperties DEF KTypeOK, TakePaste
    <2>2. KeysOf(signals') \subseteq KeysOf(signals)
        BY <1>7, KeysOfParts DEF KTypeOK, TakePaste
    <2>3. text' = signals[1] /\ UNCHANGED <<poked, todo>>
        BY <1>7, <2>1 DEF TakePaste
    <2>4. \A n \in DOMAIN signals' :
             /\ signals'[n] \notin todo'
             /\ signals'[n] # text'
             /\ \A m \in DOMAIN signals' : signals'[m] = signals'[n] => m = n
        BY <2>1, <2>3 DEF Waiting
    <2>5. text' \notin todo
        BY <2>1, <2>3 DEF Waiting
    <2>6. text' \notin KeysOf(signals')
        BY <2>4 DEF KeysOf
    <2> QED
        BY <2>1, <2>2, <2>3, <2>4, <2>5, <2>6 DEF Waiting, Waits
<1>8. CASE Frame
    BY <1>0, <1>8 DEF Frame
<1>9. CASE Feed
    <2>1. handler.key \in Keys /\ handler.key \in KeysOf(text)
        BY <1>9, HeadTailProperties, KeysOfParts DEF Feed, Seen, KTypeOK
    <2>2. KeysOf(poked') = KeysOf(poked) \union {handler.key}
        BY <1>9, <2>1, KeysOfAppend DEF KTypeOK, Feed, PokeStrobe
    <2>3. text # <<>>
        BY <2>1 DEF KeysOf
    <2>4. \A t \in Texts : t # text => handler.key \notin KeysOf(t)
        BY <2>1, <2>3, KeyboardAssumption DEF Waiting
    <2>5. UNCHANGED <<signals, text, todo>>
        BY <1>9 DEF Feed
    <2> QED
        BY <2>2, <2>4, <2>5 DEF Waiting, Waits
<1>10. CASE FeedKbd
    BY <1>0, <1>10 DEF FeedKbd
<1>11. CASE UNCHANGED kvars
    BY <1>0, <1>11 DEF kvars
<1> QED
    BY <1>1, <1>2, <1>3, <1>4, <1>5, <1>6, <1>7, <1>8, <1>9, <1>10, <1>11
       DEF KNext, Regulator

-----------------------------------------------------------------------------
(* What is latched or seen was pressed, and what is seen is still latched  *)
(* with its strobe.                                                        *)
LEMMA SeenStep == KTypeOK /\ Seen /\ [KNext]_kvars => Seen'
<1> SUFFICES ASSUME KTypeOK, Seen, [KNext]_kvars PROVE Seen'
    OBVIOUS
<1> USE DEF history
<1>0. UNCHANGED <<akd, look, poked, handler, buffer>> => Seen'
    BY DEF Seen, WasPoked
<1>1. ASSUME NEW k \in Typed, Type(k) PROVE Seen'
    <2>0. k \in Keys /\ poked \in Seq(Keys)
        BY DEF Keys, KTypeOK
    <2>1. KeysOf(poked') = KeysOf(poked) \union {k}
        BY <1>1, <2>0, KeysOfAppend DEF Type, PokeStrobe
    <2> QED
        BY <1>1, <2>1 DEF Type, PokeStrobe, Seen, WasPoked
<1>2. CASE TypeKbd
    BY <1>0, <1>2 DEF TypeKbd
<1>3. ASSUME NEW t \in Texts, Paste(t) PROVE Seen'
    BY <1>0, <1>3 DEF Paste
<1>4. CASE Look
    BY <1>4 DEF Look, Seen, WasPoked, Run
<1>5. CASE Clear
    BY <1>5 DEF Clear, Seen, WasPoked, Run
<1>6. CASE ClearWrite
    BY <1>6 DEF ClearWrite, Cleared, Seen, WasPoked, Run
<1>7. CASE TakePaste
    BY <1>7 DEF TakePaste, Seen, WasPoked, Run
<1>8. CASE Frame
    <2>1. UNCHANGED <<akd, look, poked, buffer>>
        BY <1>8 DEF Frame
    <2>2. \/ handler' = handler
          \/ /\ buffer # <<>>
             /\ handler' = [at |-> "feed", key |-> Head(buffer)]
        BY <1>8 DEF Frame, Ready
    <2> QED
        BY <1>0, <2>1, <2>2 DEF Seen, WasPoked
<1>9. CASE Feed
    <2>0. handler.key \in Keys /\ poked \in Seq(Keys)
        BY <1>9, HeadTailProperties DEF Feed, Seen, KTypeOK
    <2>1. KeysOf(poked') = KeysOf(poked) \union {handler.key}
        BY <1>9, <2>0, KeysOfAppend DEF Feed, PokeStrobe
    <2>2. handler'.at = "feedkbd" /\ handler'.key = handler.key
        BY <1>9 DEF Feed, KTypeOK
    <2> QED
        BY <1>9, <2>1, <2>2 DEF Feed, PokeStrobe, Seen, WasPoked
<1>10. CASE FeedKbd
    BY <1>10 DEF FeedKbd, Seen, WasPoked, Run
<1>11. CASE UNCHANGED kvars
    BY <1>0, <1>11 DEF kvars
<1> QED
    BY <1>1, <1>2, <1>3, <1>4, <1>5, <1>6, <1>7, <1>8, <1>9, <1>10, <1>11
       DEF KNext, Regulator

(* When a text is taken up, no key of it was ever pressed.                 *)
LEMMA NewText ==
    ASSUME KTypeOK, Waiting, TakePaste, NEW k, WasPoked(k)
    PROVE  k \notin KeysOf(text')
<1>1. Head(signals) \in KeysOf(signals) /\ Head(signals) \in Texts
    BY HeadTailProperties, KeysOfParts DEF KTypeOK, TakePaste
<1>2. KeysOf(Head(signals)) \cap KeysOf(poked) = {}
    BY <1>1 DEF Waiting, Waits
<1>3. KeysOf(Head(signals)) \subseteq Keys
    BY <1>1, KeysOfType, KeyboardAssumption
<1>4. NoKey \notin KeysOf(Head(signals))
    BY <1>3, KeyboardAssumption
<1> QED
    BY <1>2, <1>4 DEF TakePaste, WasPoked

(* While a paste is alone, what was seen of it is what is latched, and a   *)
(* key is fed to an empty latch.                                           *)
LEMMA UndisturbedStep ==
    KTypeOK /\ Waiting /\ Seen /\ Undisturbed /\ [KNext]_kvars => Undisturbed'
<1> SUFFICES ASSUME KTypeOK, Waiting, Seen, Undisturbed, [KNext]_kvars
             PROVE  Undisturbed'
    OBVIOUS
<1> USE DEF history, Undisturbed
<1>0. UNCHANGED <<akd, look, text, handler, alone>> => Undisturbed'
    BY DEF Mine
<1>1. ASSUME NEW k \in Typed, Type(k) PROVE Undisturbed'
    BY <1>1 DEF Type
<1>2. CASE TypeKbd
    BY <1>0, <1>2 DEF TypeKbd
<1>3. ASSUME NEW t \in Texts, Paste(t) PROVE Undisturbed'
    BY <1>0, <1>3 DEF Paste
<1>4. CASE Look
    BY <1>4 DEF Look, Run
<1>5. CASE Clear
    BY <1>5 DEF Clear, Run, Mine
<1>6. CASE ClearWrite
    BY <1>6 DEF ClearWrite, Run
<1>7. CASE TakePaste
    BY <1>7, NewText DEF TakePaste, Run, Mine, Seen
<1>8. CASE Frame
    BY <1>8 DEF Frame, Ready, Run, Mine
<1>9. CASE Feed
    <2>1. handler'.at = "feedkbd"
        BY <1>9 DEF Feed, KTypeOK
    <2>2. alone => look' = NoKey
        BY <1>9 DEF Feed, Seen
    <2> QED
        BY <1>9, <2>1, <2>2 DEF Feed
<1>10. CASE FeedKbd
    BY <1>10 DEF FeedKbd, Run, Mine
<1>11. CASE UNCHANGED kvars
    BY <1>0, <1>11 DEF kvars
<1> QED
    BY <1>1, <1>2, <1>3, <1>4, <1>5, <1>6, <1>7, <1>8, <1>9, <1>10, <1>11
       DEF KNext, Regulator

-----------------------------------------------------------------------------
(* The key that is taken from the latch goes to the end of what is taken.  *)
LEMMA TakenFromLatch ==
    ASSUME KTypeOK, Seen, Undisturbed, PasteKept, ClearWrite
    PROVE  PasteKept'
<1> SUFFICES ASSUME alone' PROVE text' = got' \o Latched' \o Rest'
    BY DEF PasteKept
<1> USE DEF ClearWrite
<1>1. /\ alone /\ look # NoKey /\ look \in Keys /\ akd.strobe
      /\ got \in Seq(Keys) /\ buffer \in Seq(Keys)
    BY DEF KTypeOK, Seen, Maybe
<1>2. text = got \o Latched \o Rest
    BY <1>1 DEF PasteKept
<1>3. Latched' = <<>> /\ Rest' = Rest /\ Rest = buffer /\ text' = text
    BY DEF Latched, Rest, Run, Cleared
<1>4. got' \in Seq(Keys) /\ got' \o Latched' = got'
    BY <1>1, <1>3, AppendProperties, ConcatEmptySeq
<1>5. CASE Mine(look)
    <2>1. Latched = <<look>>
        BY <1>1, <1>5 DEF Latched, Undisturbed
    <2>2. got' = got \o <<look>>
        BY <1>1, <1>5, AppendIsConcat
    <2> QED
        BY <1>2, <1>3, <1>4, <2>1, <2>2
<1>6. CASE ~Mine(look)
    <2>1. Latched = <<>>
        BY <1>1, <1>6 DEF Latched, Undisturbed
    <2>2. got' = got
        BY <1>1, <1>6
    <2> QED
        BY <1>2, <1>3, <1>4, <2>1, <2>2
<1> QED
    BY <1>5, <1>6

(* The key that is fed goes from the rest of the text to the latch.        *)
LEMMA FedToLatch ==
    ASSUME KTypeOK, Seen, Undisturbed, PasteKept, Feed
    PROVE  PasteKept'
<1> SUFFICES ASSUME alone' PROVE text' = got' \o Latched' \o Rest'
    BY DEF PasteKept
<1> USE DEF Feed
<1>1. /\ alone /\ ~akd.strobe /\ buffer # <<>> /\ handler.key = Head(buffer)
      /\ handler'.at = "feedkbd" /\ handler'.key = handler.key
      /\ got \in Seq(Keys) /\ buffer \in Seq(Keys)
    BY DEF KTypeOK, Seen, Undisturbed
<1>2. handler.key \in Keys /\ handler.key \in KeysOf(text)
    BY <1>1, HeadTailProperties, KeysOfParts DEF KTypeOK
<1>3. text = got \o <<>> \o buffer
    BY <1>1 DEF PasteKept, Latched, Rest
<1>4. Latched' = <<handler.key>> /\ Rest' = Tail(buffer) /\ got' = got /\ text' = text
    BY <1>1, <1>2 DEF Latched, Rest, Mine, PokeStrobe
<1>5. buffer = <<handler.key>> \o Tail(buffer)
    BY <1>1, HeadAndTail
<1>6. got \o <<>> = got
    BY <1>1, ConcatEmptySeq
<1>7. <<handler.key>> \in Seq(Keys) /\ Tail(buffer) \in Seq(Keys)
    BY <1>1, <1>2, HeadTailProperties
<1>8. got \o (<<handler.key>> \o Tail(buffer)) = (got \o <<handler.key>>) \o Tail(buffer)
    BY <1>1, <1>7, ConcatAssociative
<1> QED
    BY <1>3, <1>4, <1>5, <1>6, <1>8

LEMMA PasteStep == KInv /\ [KNext]_kvars => PasteKept'
<1> SUFFICES ASSUME KInv, [KNext]_kvars PROVE PasteKept'
    OBVIOUS
<1> USE DEF history, KInv
<1>0. UNCHANGED <<akd, text, handler, buffer, got, alone>> => PasteKept'
    BY DEF PasteKept, Latched, Rest, Mine
<1>1. ASSUME NEW k \in Typed, Type(k) PROVE PasteKept'
    BY <1>1 DEF Type, PasteKept
<1>2. CASE TypeKbd
    BY <1>0, <1>2 DEF TypeKbd
<1>3. ASSUME NEW t \in Texts, Paste(t) PROVE PasteKept'
    BY <1>0, <1>3 DEF Paste
<1>4. CASE Look
    BY <1>0, <1>4 DEF Look
<1>5. CASE Clear
    BY <1>5 DEF Clear, PasteKept, Latched, Rest, Mine, Run
<1>6. CASE ClearWrite
    BY <1>6, TakenFromLatch
<1>7. CASE TakePaste
    <2>1. ~(akd.key \in KeysOf(text'))
        BY <1>7, NewText DEF Seen
    <2>2. Latched' = <<>> /\ Rest' = buffer' /\ text' = buffer' /\ got' = <<>>
        BY <1>7, <2>1 DEF TakePaste, Latched, Rest, Mine, Run
    <2>3. text' \in Seq(Keys)
        BY KTypeStep DEF KTypeOK
    <2>4. <<>> \o <<>> = <<>> /\ <<>> \o text' = text'
        BY <2>3, EmptySeq, ConcatEmptySeq
    <2> QED
        BY <2>2, <2>4 DEF PasteKept
<1>8. CASE Frame
    <2>1. UNCHANGED <<akd, text, buffer, got, alone>>
        BY <1>8 DEF Frame
    <2>2. handler.at = "run" /\ handler'.at \in {"run", "feed"}
        <3>1. /\ handler = [at |-> "run", key |-> NoKey]
              /\ \/ handler' = handler
                 \/ handler' = [at |-> "feed", key |-> Head(buffer)]
            BY <1>8 DEF Frame, Run
        <3> QED
            BY <3>1
    <2>3. Rest' = Rest /\ Latched' = Latched
        BY <2>1, <2>2 DEF Rest, Latched, Mine
    <2> QED
        BY <2>1, <2>3 DEF PasteKept
<1>9. CASE Feed
    BY <1>9, FedToLatch
<1>10. CASE FeedKbd
    BY <1>10 DEF FeedKbd, PasteKept, Latched, Rest, Mine, Run
<1>11. CASE UNCHANGED kvars
    BY <1>0, <1>11 DEF kvars
<1> QED
    BY <1>1, <1>2, <1>3, <1>4, <1>5, <1>6, <1>7, <1>8, <1>9, <1>10, <1>11
       DEF KNext, Regulator

\* A key that is pressed into a cleared latch waits there behind what was taken.
LEMMA PressIsUnread ==
    ASSUME KTypeOK, NoneLost, NEW k \in Keys, PokeStrobe(k), UNCHANGED <<taken, look>>
    PROVE  NoneLost'
<1> SUFFICES ASSUME paced' PROVE poked' = taken' \o Unread' /\ look' = NoKey
    BY DEF NoneLost
<1>1. paced /\ ~akd.strobe /\ poked' = Append(poked, k)
      /\ akd' = [strobe |-> TRUE, key |-> k]
    BY DEF PokeStrobe
<1>2. look = NoKey
    BY <1>1 DEF NoneLost
<1>3. poked = taken
    BY <1>1, ConcatEmptySeq DEF NoneLost, Unread, KTypeOK
<1>4. Unread' = <<k>>
    BY <1>1 DEF Unread
<1>5. Append(taken, k) = taken \o <<k>>
    BY AppendIsConcat DEF KTypeOK
<1> QED
    BY <1>1, <1>2, <1>3, <1>4, <1>5

LEMMA NoneLostStep == KTypeOK /\ Seen /\ NoneLost /\ [KNext]_kvars => NoneLost'
<1> SUFFICES ASSUME KTypeOK, Seen, NoneLost, [KNext]_kvars PROVE NoneLost'
    OBVIOUS
<1> USE DEF history
<1>0. UNCHANGED <<akd, look, poked, paced, taken>> => NoneLost'
    BY DEF NoneLost, Unread
<1>1. ASSUME NEW k \in Typed, Type(k) PROVE NoneLost'
    <2>1. k \in Keys
        BY DEF Keys
    <2> QED
        BY <1>1, <2>1, PressIsUnread DEF Type
<1>2. CASE TypeKbd
    BY <1>0, <1>2 DEF TypeKbd
<1>3. ASSUME NEW t \in Texts, Paste(t) PROVE NoneLost'
    BY <1>0, <1>3 DEF Paste
<1>4. CASE Look
    <2>1. UNCHANGED <<akd, poked, paced, taken>>
          /\ look' = IF akd.strobe THEN akd.key ELSE NoKey
        BY <1>4 DEF Look
    <2> QED
        BY <2>1 DEF NoneLost, Unread
<1>5. CASE Clear
    BY <1>0, <1>5 DEF Clear
<1>6. CASE ClearWrite
    <2>1. /\ akd' = [strobe |-> FALSE, key |-> handler.key] /\ look' = NoKey
          /\ taken' = IF look # NoKey THEN Append(taken, look) ELSE taken
          /\ paced' = (paced /\ (akd.strobe => look # NoKey)) /\ poked' = poked
        BY <1>6 DEF ClearWrite, Cleared
    <2>2. Unread' = <<>>
        BY <2>1 DEF Unread
    <2>3. taken' \in Seq(Keys) /\ taken' \o <<>> = taken'
        <3>1. look # NoKey => look \in Keys
            BY DEF KTypeOK, Maybe
        <3>2. taken' \in Seq(Keys)
            BY <2>1, <3>1, AppendProperties DEF KTypeOK
        <3> QED
            BY <3>2, ConcatEmptySeq
    <2>4. ASSUME paced' PROVE poked' = taken'
        <3>1. paced /\ poked = taken \o Unread /\ taken \in Seq(Keys)
            BY <2>1, <2>4 DEF NoneLost, KTypeOK
        <3>2. CASE look = NoKey
            <4>1. Unread = <<>>
                BY <2>1, <2>4, <3>2 DEF Unread
            <4> QED
                BY <2>1, <3>1, <3>2, <4>1, ConcatEmptySeq
        <3>3. CASE look # NoKey
            <4>1. Unread = <<look>>
                BY <3>1, <3>3 DEF NoneLost, Unread
            <4>2. Append(taken, look) = taken \o <<look>>
                <5>1. look \in Keys
                    BY <3>3 DEF KTypeOK, Maybe
                <5> QED
                    BY <3>1, <5>1, AppendIsConcat
            <4> QED
                BY <2>1, <3>1, <3>3, <4>1, <4>2
        <3> QED
            BY <3>2, <3>3
    <2> QED
        BY <2>1, <2>2, <2>3, <2>4 DEF NoneLost
<1>7. CASE TakePaste
    BY <1>0, <1>7 DEF TakePaste
<1>8. CASE Frame
    BY <1>0, <1>8 DEF Frame
<1>9. CASE Feed
    <2>1. handler.key \in Keys
        BY <1>9, HeadTailProperties DEF Feed, Seen, KTypeOK
    <2> QED
        BY <1>9, <2>1, PressIsUnread DEF Feed
<1>10. CASE FeedKbd
    BY <1>0, <1>10 DEF FeedKbd
<1>11. CASE UNCHANGED kvars
    BY <1>0, <1>11 DEF kvars
<1> QED
    BY <1>1, <1>2, <1>3, <1>4, <1>5, <1>6, <1>7, <1>8, <1>9, <1>10, <1>11
       DEF KNext, Regulator

LEMMA KInductive == KSpec => []KInv
<1>1. KInv /\ [KNext]_kvars => KInv'
    BY KTypeStep, OrderStep, WaitingStep, SeenStep, UndisturbedStep, PasteStep,
       NoneLostStep DEF KInv
<1> QED
    BY <1>1, KInitHolds, PTL DEF KSpec

(* Every variable of the keyboard has the values the code can give it.     *)
THEOREM KeyboardTypes == KSpec => []KTypeOK
BY KInductive, PTL DEF KInv

(* The program takes each press once at most, in the order of the presses, *)
(* however the two writers, its read and its clear are interleaved, and    *)
(* loses none that is pressed after the one before it was cleared.         *)
THEOREM PressesInOrder == KSpec => []TakenInOrder
<1>1. KInv => TakenInOrder
    <2> SUFFICES ASSUME KInv, NEW n \in DOMAIN taken, NEW m \in 1 .. n
                 PROVE  \E p, q \in DOMAIN poked :
                           /\ poked[p] = taken[m] /\ poked[q] = taken[n]
                           /\ m < n => p < q
        BY DEF TakenInOrder, KInv, NoneLost
    <2>1. PICK f \in [DOMAIN taken -> DOMAIN poked] : PlacedBy(f)
        BY DEF KInv, InPlace
    <2>2. m \in DOMAIN taken
        BY LenProperties DEF KInv, KTypeOK
    <2>3. /\ poked[f[m]] = taken[m] /\ poked[f[n]] = taken[n]
          /\ m < n => f[m] < f[n]
        BY <2>1, <2>2 DEF PlacedBy
    <2> QED
        BY <2>2, <2>3
<1> QED
    BY <1>1, KInductive, PTL

(* A paste that is left alone is delivered whole and in order, whatever    *)
(* its length and whatever is pasted after it.                             *)
THEOREM PasteIsKept == KSpec => []PasteKept
BY KInductive, PTL DEF KInv

-----------------------------------------------------------------------------
(* The mouse card.                                                         *)

\* The line and the reasons for it, in the callback as well.
LineHasReason ==
    raised <=> (IF cpu = "vbl" THEN new ELSE status) \intersect Irq # {}

\* What a READMOUSE that no write of the UI disturbed has told so far.
Told ==
    /\ cpu = "vbl" => ("BUT0" \in new <=> "BUT0" \in status)
    /\ cpu = "button" => new \subseteq {"MOVED"}
    /\ ~raced =>
         /\ cpu \in {"run", "vbl"} => /\ hole = last.x
                                      /\ "BUT0" \in status <=> last.button
         /\ cpu = "low" => hole.high = x.high
         /\ cpu \in {"status", "button", "lastx"} => hole = x
         /\ cpu = "lastbutton" => hole = last.x
         /\ cpu \in {"lastx", "lastbutton"} => ("BUT0" \in status <=> button)

IInv == TypeOK /\ LineHasReason /\ Told

LEMMA InitHolds == Init => IInv
<1> SUFFICES ASSUME Init PROVE IInv
    OBVIOUS
<1>1. TypeOK
    BY CoordAssumption DEF Init, TypeOK
<1>2. LineHasReason
    BY DEF Init, LineHasReason
<1>3. Told
    BY DEF Init, Told
<1> QED
    BY <1>1, <1>2, <1>3 DEF IInv

(* Two positions with the same bytes are the same.                         *)
LEMMA SameBytes ==
    ASSUME NEW c \in Bytes, NEW d \in Bytes, c.high = d.high
    PROVE  [c EXCEPT !.low = d.low] = d
<1>1. d = [high |-> d.high, low |-> d.low]
    BY DEF Bytes
<1>2. [c EXCEPT !.low = d.low] = [high |-> c.high, low |-> d.low]
    BY DEF Bytes
<1> QED
    BY <1>1, <1>2

(* No step of the UI, of the callback or of a call breaks a type.          *)
LEMMA TypeStep == TypeOK /\ [Next]_vars => TypeOK'
<1> SUFFICES ASSUME TypeOK, [Next]_vars PROVE TypeOK'
    OBVIOUS
<1> USE CoordAssumption DEF TypeOK
<1>1. CASE Move
    BY <1>1 DEF Move, card
<1>2. CASE Press
    BY <1>2 DEF Press, card
<1>3. CASE VblMove
    BY <1>3 DEF VblMove, shared, Status, Irq
<1>4. CASE VblButton
    BY <1>4 DEF VblButton, shared, Status, Irq
<1>5. CASE ReadLow
    BY <1>5 DEF ReadLow, shared, card, Bytes
<1>6. CASE ReadMoved
    BY <1>6 DEF ReadMoved, shared, card, Status
<1>7. CASE ReadButton
    BY <1>7 DEF ReadButton, shared, Status, Irq
<1>8. CASE ReadLastX
    BY <1>8 DEF ReadLastX, shared, Kept
<1>9. CASE ReadLastButton
    BY <1>9 DEF ReadLastButton, shared
<1>10. ASSUME NEW on \in BOOLEAN, NEW irqs \in SUBSET Irq, SetMode(on, irqs)
       PROVE  TypeOK'
    BY <1>10 DEF SetMode, Call, shared
<1>11. CASE Serve
    BY <1>11 DEF Serve, Served, Call, shared
<1>12. CASE ReadHigh
    BY <1>12 DEF ReadHigh, Call, shared, card, Bytes
<1>13. CASE GoHome
    BY <1>13 DEF GoHome, Call, card
<1>14. CASE InitMouse
    BY <1>14 DEF InitMouse, Call, shared, card
<1>15. CASE UNCHANGED vars
    BY <1>15 DEF vars
<1> QED
    BY <1>1, <1>2, <1>3, <1>4, <1>5, <1>6, <1>7, <1>8, <1>9, <1>10, <1>11,
       <1>12, <1>13, <1>14, <1>15 DEF Next, Handlers, Calls

(* The line is raised with its reason, and cleared with it.                *)
LEMMA LineStep == IInv /\ [Next]_vars => LineHasReason'
<1> SUFFICES ASSUME IInv, [Next]_vars PROVE LineHasReason'
    OBVIOUS
<1> USE DEF IInv, TypeOK, LineHasReason
<1>1. CASE Move
    BY <1>1 DEF Move, card
<1>2. CASE Press
    BY <1>2 DEF Press, card
<1>3. CASE VblMove
    BY <1>3 DEF VblMove, Irq
<1>4. CASE VblButton
    BY <1>4 DEF VblButton, Irq
<1>5. CASE ReadLow
    BY <1>5 DEF ReadLow, card
<1>6. CASE ReadMoved
    BY <1>6 DEF ReadMoved, card
<1>7. CASE ReadButton
    <2>1. new \subseteq {"MOVED"}
        BY <1>7 DEF ReadButton, Told
    <2>2. status' \intersect Irq = status \intersect Irq
        BY <1>7, <2>1 DEF ReadButton, Irq
    <2> QED
        BY <1>7, <2>2 DEF ReadButton
<1>8. CASE ReadLastX
    BY <1>8 DEF ReadLastX
<1>9. CASE ReadLastButton
    BY <1>9 DEF ReadLastButton
<1>10. ASSUME NEW on \in BOOLEAN, NEW irqs \in SUBSET Irq, SetMode(on, irqs)
       PROVE  LineHasReason'
    BY <1>10 DEF SetMode, Call
<1>11. CASE Serve
    BY <1>11 DEF Serve, Served, Call
<1>12. CASE ReadHigh
    BY <1>12 DEF ReadHigh, Call, card
<1>13. CASE GoHome
    BY <1>13 DEF GoHome, Call, card
<1>14. CASE InitMouse
    BY <1>14 DEF InitMouse, Call, card
<1>15. CASE UNCHANGED vars
    BY <1>15 DEF vars
<1> QED
    BY <1>1, <1>2, <1>3, <1>4, <1>5, <1>6, <1>7, <1>8, <1>9, <1>10, <1>11,
       <1>12, <1>13, <1>14, <1>15 DEF Next, Handlers, Calls

(* A READMOUSE that nothing disturbed keeps what it tells.                 *)
LEMMA ToldStep == IInv /\ [Next]_vars => Told'
<1> SUFFICES ASSUME IInv, [Next]_vars PROVE Told'
    OBVIOUS
<1> USE DEF IInv, TypeOK, Told
<1>1. CASE Move
    BY <1>1 DEF Move, card, Reading
<1>2. CASE Press
    BY <1>2 DEF Press, card, Reading
<1>3. CASE VblMove
    BY <1>3 DEF VblMove, shared
<1>4. CASE VblButton
    BY <1>4 DEF VblButton, shared
<1>5. CASE ReadLow
    <2>1. ~raced => hole' = x
        BY <1>5, SameBytes, CoordAssumption DEF ReadLow
    <2> QED
        BY <1>5, <2>1 DEF ReadLow, shared, card
<1>6. CASE ReadMoved
    BY <1>6 DEF ReadMoved, shared, card
<1>7. CASE ReadButton
    BY <1>7 DEF ReadButton, shared, Irq
<1>8. CASE ReadLastX
    BY <1>8 DEF ReadLastX, shared, Kept
<1>9. CASE ReadLastButton
    BY <1>9 DEF ReadLastButton, shared
<1>10. ASSUME NEW on \in BOOLEAN, NEW irqs \in SUBSET Irq, SetMode(on, irqs)
       PROVE  Told'
    BY <1>10 DEF SetMode, Call, shared
<1>11. CASE Serve
    BY <1>11 DEF Serve, Served, Call, shared, Irq
<1>12. CASE ReadHigh
    BY <1>12 DEF ReadHigh, Call, shared, card, Bytes
<1>13. CASE GoHome
    BY <1>13 DEF GoHome, Call, card
<1>14. CASE InitMouse
    BY <1>14 DEF InitMouse, Call, shared, card
<1>15. CASE UNCHANGED vars
    BY <1>15 DEF vars
<1> QED
    BY <1>1, <1>2, <1>3, <1>4, <1>5, <1>6, <1>7, <1>8, <1>9, <1>10, <1>11,
       <1>12, <1>13, <1>14, <1>15 DEF Next, Handlers, Calls

LEMMA Inductive == Spec => []IInv
<1>1. IInv /\ [Next]_vars => IInv'
    BY TypeStep, LineStep, ToldStep DEF IInv
<1> QED
    BY <1>1, InitHolds, PTL DEF Spec

(* The line is raised exactly when the status has a reason for it, for     *)
(* every order of modes, callbacks and calls.                              *)
THEOREM LineIsPlaced == Spec => []RaisedForReason
<1>1. IInv => RaisedForReason
    BY DEF IInv, LineHasReason, RaisedForReason
<1> QED
    BY <1>1, Inductive, PTL

(* A READMOUSE that the UI did not disturb tells the program the position  *)
(* and the button that the card compares later ones with.                  *)
THEOREM ReadIsKept == Spec => []ToldIsKept
<1>1. IInv => ToldIsKept
    BY DEF IInv, TypeOK, Told, ToldIsKept, Reading
<1> QED
    BY <1>1, Inductive, PTL
=============================================================================
