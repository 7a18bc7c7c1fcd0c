---------------------------- MODULE ArtifactStore ---------------------------
(***************************************************************************)
(* ArtifactStore.register (artifacts.py) over one directory, called by any *)
(* number of processes: look whether the file named after the digest is    *)
(* there, and if it is not open it for writing and write the content.      *)
(*                                                                         *)
(* A content is its own digest.  A file is the set of its blocks that hold *)
(* the right bytes: opening truncates, every writer writes from its own    *)
(* offset, so a block that another writer has truncated away reads back as *)
(* zeros until somebody writes it again.                                   *)
(***************************************************************************)
EXTENDS Naturals

CONSTANTS Writers,   \* the calls of register
          Contents,  \* the canonical artifact contents
          Blocks     \* number of blocks a content is written in

ASSUME StoreAssumption == Blocks \in Nat \ {0}

VARIABLES pc,       \* where each call is
          content,  \* what each call registers
          offset,   \* how many blocks each call has written
          file      \* content -> "absent" or the blocks on disk

vars == <<pc, content, offset, file>>

Absent == {0}       \* no block has number 0
Whole  == 1..Blocks

TypeOK ==
  /\ pc \in [Writers -> {"check", "open", "write", "returned", "raised", "crashed"}]
  /\ content \in [Writers -> Contents]
  /\ offset \in [Writers -> 0..Blocks]
  /\ file \in [Contents -> (SUBSET Whole) \cup {Absent}]

Init ==
  /\ pc = [w \in Writers |-> "check"]
  /\ content \in [Writers -> Contents]
  /\ offset = [w \in Writers |-> 0]
  /\ file = [c \in Contents |-> Absent]

Goto(w, label) == pc' = [pc EXCEPT ![w] = label]

-----------------------------------------------------------------------------
\* artifact_path.exists(): a file that is there is taken as registered.
Check(w) ==
  /\ pc[w] = "check"
  /\ Goto(w, IF file[content[w]] = Absent THEN "open" ELSE "returned")
  /\ UNCHANGED <<content, offset, file>>

\* write_bytes: open for writing creates or truncates ...
Open(w) ==
  /\ pc[w] = "open"
  /\ file' = [file EXCEPT ![content[w]] = {}]
  /\ Goto(w, "write")
  /\ UNCHANGED <<content, offset>>

\* ... and the bytes follow, block by block.
WriteBlock(w) ==
  /\ pc[w] = "write"
  /\ offset[w] < Blocks
  /\ offset' = [offset EXCEPT ![w] = @ + 1]
  /\ file' = [file EXCEPT ![content[w]] = @ \cup {offset[w] + 1}]
  /\ UNCHANGED <<pc, content>>

Return(w) ==
  /\ pc[w] = "write"
  /\ offset[w] = Blocks
  /\ Goto(w, "returned")
  /\ UNCHANGED <<content, offset, file>>

\* Mutant: an OSError is swallowed and the reference returned.
RaiseIsSwallowed(w) ==
  /\ pc[w] \in {"open", "write"}
  /\ Goto(w, "returned")
  /\ UNCHANGED <<content, offset, file>>

\* An OSError (full disk, permissions) leaves the file as it is.
Raise(w) ==
  /\ pc[w] \in {"open", "write"}
  /\ Goto(w, "raised")
  /\ UNCHANGED <<content, offset, file>>

Crash(w) ==
  /\ pc[w] \in {"check", "open", "write"}
  /\ Goto(w, "crashed")
  /\ UNCHANGED <<content, offset, file>>

Next == \E w \in Writers :
  Check(w) \/ Open(w) \/ WriteBlock(w) \/ Return(w) \/ Raise(w) \/ Crash(w)

Spec == Init /\ [][Next]_vars

-----------------------------------------------------------------------------
(* However the calls interleave, once no call for a content is at work and  *)
(* none of them was cut short, a returned call has its content on disk.     *)
SettledIsWhole ==
  \A c \in Contents :
    (/\ \E w \in Writers : content[w] = c /\ pc[w] = "returned"
     /\ \A w \in Writers : content[w] = c => pc[w] \in {"check", "returned"})
    => file[c] = Whole

(* A file that exists has been opened by a call all of whose blocks are in  *)
(* it: the last one to truncate it.                                         *)
HasOwner ==
  /\ \A w \in Writers :
       /\ pc[w] \in {"check", "open"} => offset[w] = 0
       /\ pc[w] = "returned" => file[content[w]] # Absent
       /\ pc[w] = "write" => file[content[w]] # Absent
  /\ \A c \in Contents : file[c] # Absent =>
       \E w \in Writers :
         /\ content[w] = c
         /\ pc[w] \notin {"check", "open"}
         /\ 1..offset[w] \subseteq file[c]
         /\ pc[w] = "returned" => offset[w] = Blocks

(* Registered bytes are never overwritten: a file that is whole stays so.   *)
NeverOverwritten ==
  [][\A c \in Contents : file[c] = Whole => file'[c] = Whole]_file

(* The discipline under which they are not, and that the code leaves to its *)
(* callers: no two calls for one content are past their check together.     *)
AtWork(w) == pc[w] \in {"open", "write"}
CallsApart ==
  \A v, w \in Writers : v # w /\ content[v] = content[w] => ~ (AtWork(v) /\ AtWork(w))

\* Under it a call that is about to open the file still finds none.
CheckHolds == \A w \in Writers : pc[w] = "open" => file[content[w]] = Absent

=============================================================================
