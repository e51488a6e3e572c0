-------------------------- MODULE ChatTranscript --------------------------
(***************************************************************************)
(* What a chat promises its reader, whatever happens to the router, the    *)
(* relays and the process: no line of the transcript is dropped or moved   *)
(* before another, and what it gains are lines the two parties have        *)
(* written, each of them once, at its end.  Two things may happen further  *)
(* up: a placeholder of an older version becomes the attachment it stood   *)
(* for, and a line that was shown without being saved is kept after all,   *)
(* before lines that came later.  Lines the file keeps in another form     *)
(* than they are shown in may stand there once more, anywhere.  A chat     *)
(* that is over is forgotten some day: what is still on its way to it is   *)
(* added at the end, be it there already or not.                           *)
(***************************************************************************)
EXTENDS Naturals, Sequences, SequencesExt, Functions

CONSTANTS
  Chats,
  PlaceholderOf(_),   \* what an older version wrote in the place of a line
  Repeatable(_)       \* lines the file does not keep as they were written

VARIABLES
  written,   \* the lines the parties have written, of each chat
  late,      \* those of them that are shown whether they are kept or not
  kept,      \* the transcript of each chat, oldest line first
  forgotten  \* the chats nothing is remembered of but their transcripts

Started ==
  \A c \in Chats : \A i \in DOMAIN kept[c] :
    \E line \in written[c] : kept[c][i] \in {line, PlaceholderOf(line)}

OnceOf(lines) == {i \in DOMAIN lines : ~Repeatable(lines[i])}

InOrder(place) == \A i, j \in DOMAIN place : i < j => place[i] < place[j]

\* Each line keeps its order at its new place; between them stand late lines.
Grow(c) ==
  /\ \E place \in [DOMAIN kept[c] -> DOMAIN kept'[c]] :
       /\ InOrder(place)
       /\ \A i \in DOMAIN place :
            kept'[c][place[i]] # kept[c][i] => kept[c][i] = PlaceholderOf(kept'[c][place[i]])
       /\ \A k \in DOMAIN kept'[c] \ Range(place) :
            /\ kept'[c][k] \in written'[c]
            /\ (\E i \in DOMAIN place : k < place[i])
                 => kept'[c][k] \in late[c] \/ Repeatable(kept'[c][k])
  /\ \A i, j \in OnceOf(kept'[c]) : kept'[c][i] = kept'[c][j] => i = j

Extend(c) ==
  /\ IsPrefix(kept[c], kept'[c])
  /\ \A k \in DOMAIN kept'[c] \ DOMAIN kept[c] : kept'[c][k] \in written'[c]

\* One chat at a time; what the parties write is theirs to decide.
Next ==
  \E c \in Chats :
    /\ IF c \in forgotten THEN Extend(c) ELSE Grow(c)
    /\ \A d \in Chats \ {c} : kept'[d] = kept[d]

Spec == Started /\ [][Next]_<<written, late, kept, forgotten>>
===========================================================================
