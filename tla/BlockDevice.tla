---------------------------- MODULE BlockDevice ----------------------------
(***************************************************************************)
(* What a drive of block images promises its user: a block that is kept    *)
(* reads as it was last written, whatever is ejected, loaded again,        *)
(* stopped or killed.  It excepts what the program excepts: a kill in the  *)
(* middle of a write may leave that one block torn; an image whose changes *)
(* are held in memory goes back to what files hold when the program stops; *)
(* an image may be replaced while the program is not running; and an image *)
(* may be loaded without its changes, because their file cannot be opened: *)
(* it shows as if it had none until it is taken out or the program stops,  *)
(* and what is written to it meanwhile may do away with them.              *)
(***************************************************************************)
CONSTANTS Kept,    \* the blocks it keeps, pairs of an image and a number
          Value    \* what a block can hold

VARIABLES on,        \* the program runs
          content,   \* what each kept block reads as
          saved,     \* what it will read as once the program is started again
          base,      \* what it holds in the image's own file
          changes,   \* where an image's changes are: "file", "memory", "unused"
          writing,   \* the write in progress, <<block, value>>, or <<>>
          answer     \* the last block read, <<block, value>>, or <<>>

vars == <<on, content, saved, base, changes, writing, answer>>

Images == {k[1] : k \in Kept}
InFiles == [i \in Images |-> "file"]

\* f, but with g's blocks of image i.
With(f, g, i) == [k \in Kept |-> IF k[1] = i THEN g[k] ELSE f[k]]

Init == /\ on = FALSE
        /\ base \in [Kept -> Value]
        /\ content = base
        /\ saved = base
        /\ changes = InFiles
        /\ writing = <<>>
        /\ answer = <<>>

Idle == on /\ writing = <<>>

Read(k) == /\ Idle
           /\ answer' = <<k, content[k]>>
           /\ UNCHANGED <<on, content, saved, base, changes, writing>>

(* A block that is not kept, or an error.                                  *)
ReadOther == /\ Idle
             /\ answer' = <<>> \/ answer'[1] \notin Kept
             /\ UNCHANGED <<on, content, saved, base, changes, writing>>

(* The answer of the block before is gone once a write is under way.       *)
Begin(k, v) == /\ Idle
               /\ writing' = <<k, v>>
               /\ answer' = <<>>
               /\ UNCHANGED <<on, content, saved, base, changes>>

(* An image is loaded without its changes.                                 *)
PassOver(i) == /\ Idle
               /\ changes[i] = "file"
               /\ changes' = [changes EXCEPT ![i] = "unused"]
               /\ content' = With(content, base, i)
               /\ UNCHANGED <<on, saved, base, writing, answer>>

(* It is taken out, or loaded again with them.                             *)
Recall(i) == /\ Idle
             /\ changes[i] = "unused"
             /\ changes' = [changes EXCEPT ![i] = "file"]
             /\ content' = With(content, saved, i)
             /\ UNCHANGED <<on, saved, base, writing, answer>>

(* A file is begun anew for the changes of an image that shows without.    *)
Renew(i) == /\ on
            /\ changes[i] = "unused"
            /\ changes' = [changes EXCEPT ![i] = "file"]
            /\ saved' = With(saved, base, i)
            /\ UNCHANGED <<on, content, base, writing, answer>>

(* An image's changes can go to memory only while it shows none.           *)
Degrade(i) == /\ on
              /\ changes[i] # "memory"
              /\ \A k \in Kept : k[1] = i => content[k] = base[k]
              /\ changes' = [changes EXCEPT ![i] = "memory"]
              /\ UNCHANGED <<on, content, saved, base, writing, answer>>

(* What the block being written becomes, in what keeps it.                 *)
Becomes(v) == LET k == writing[1]
              IN  /\ content' = [content EXCEPT ![k] = v]
                  /\ saved' = IF changes[k[1]] = "file" THEN [saved EXCEPT ![k] = v] ELSE saved

Tear == /\ writing # <<>>
        /\ \E v \in Value : Becomes(v)
        /\ UNCHANGED <<on, base, changes, writing, answer>>

End == /\ writing # <<>>
       /\ Becomes(writing[2])
       /\ writing' = <<>>
       /\ UNCHANGED <<on, base, changes, answer>>

Start == /\ ~on
         /\ on' = TRUE
         /\ UNCHANGED <<content, saved, base, changes, writing, answer>>

Stop == /\ on
        /\ on' = FALSE
        /\ content' = saved
        /\ changes' = InFiles
        /\ writing' = <<>>
        /\ answer' = <<>>
        /\ UNCHANGED <<saved, base>>

Replace(i) == /\ ~on
              /\ base' \in [Kept -> Value]
              /\ content' \in [Kept -> Value]
              /\ saved' = content'
              /\ \A k \in Kept : k[1] # i => /\ base'[k] = base[k]
                                             /\ content'[k] = content[k]
              /\ UNCHANGED <<on, changes, writing, answer>>

Next == \/ \E k \in Kept : Read(k)
        \/ ReadOther
        \/ \E k \in Kept, v \in Value : Begin(k, v)
        \/ \E i \in Images : PassOver(i) \/ Recall(i) \/ Renew(i) \/ Degrade(i)
        \/ Tear
        \/ End
        \/ Start
        \/ Stop
        \/ \E i \in Images : Replace(i)

Spec == Init /\ [][Next]_vars
=============================================================================
