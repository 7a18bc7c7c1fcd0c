------------------------- MODULE ArtifactStoreProofs ------------------------
(***************************************************************************)
(* SettledIsWhole for any number of calls, contents and blocks, and what   *)
(* it takes for NeverOverwritten to hold.                                  *)
(***************************************************************************)
EXTENDS ArtifactStore, TLAPS

LEMMA Numbers == Absent # Whole /\ Absent # {} /\ Absent \notin SUBSET Whole
BY StoreAssumption DEF Absent, Whole

LEMMA InitStore == Init => TypeOK /\ HasOwner
<1>. SUFFICES ASSUME Init PROVE TypeOK /\ HasOwner
  OBVIOUS
<1>1. TypeOK
  <2>1. 0 \in 0..Blocks
    BY StoreAssumption
  <2>2. file \in [Contents -> (SUBSET Whole) \cup {Absent}]
    BY DEF Init
  <2>. QED BY <2>1, <2>2 DEF Init, TypeOK
<1>2. HasOwner
  BY Numbers DEF Init, HasOwner
<1>. QED BY <1>1, <1>2

LEMMA StoreStep ==
  ASSUME TypeOK, HasOwner, [Next]_vars
  PROVE  TypeOK' /\ HasOwner'
<1>. USE StoreAssumption, Numbers DEF TypeOK, HasOwner
<1>1. ASSUME NEW w \in Writers, Check(w) PROVE TypeOK' /\ HasOwner'
  <2>1. CASE file[content[w]] = Absent
    BY <1>1, <2>1 DEF Check, Goto
  <2>2. CASE file[content[w]] # Absent
    <3>1. TypeOK'
      BY <1>1, <2>2 DEF Check, Goto
    <3>2. \A v \in Writers :
            /\ pc'[v] \in {"check", "open"} => offset'[v] = 0
            /\ pc'[v] = "returned" => file'[content'[v]] # Absent
            /\ pc'[v] = "write" => file'[content'[v]] # Absent
      BY <1>1, <2>2 DEF Check, Goto
    <3>3. ASSUME NEW c \in Contents, file'[c] # Absent
          PROVE  \E v \in Writers :
                   /\ content'[v] = c
                   /\ pc'[v] \notin {"check", "open"}
                   /\ 1..offset'[v] \subseteq file'[c]
                   /\ pc'[v] = "returned" => offset'[v] = Blocks
      <4>1. PICK v \in Writers : /\ content[v] = c
                                 /\ pc[v] \notin {"check", "open"}
                                 /\ 1..offset[v] \subseteq file[c]
                                 /\ pc[v] = "returned" => offset[v] = Blocks
        BY <1>1, <3>3 DEF Check
      <4>2. v # w
        BY <1>1, <4>1 DEF Check
      <4>. QED BY <1>1, <4>1, <4>2 DEF Check, Goto
    <3>. QED BY <3>1, <3>2, <3>3
  <2>. QED BY <2>1, <2>2
<1>2. ASSUME NEW w \in Writers, Open(w) PROVE TypeOK' /\ HasOwner'
  <2>1. TypeOK'
    BY <1>2 DEF Open, Goto
  <2>2. \A v \in Writers :
          /\ pc'[v] \in {"check", "open"} => offset'[v] = 0
          /\ pc'[v] = "returned" => file'[content'[v]] # Absent
          /\ pc'[v] = "write" => file'[content'[v]] # Absent
    BY <1>2 DEF Open, Goto
  <2>3. ASSUME NEW c \in Contents, file'[c] # Absent
        PROVE  \E v \in Writers :
                 /\ content'[v] = c
                 /\ pc'[v] \notin {"check", "open"}
                 /\ 1..offset'[v] \subseteq file'[c]
                 /\ pc'[v] = "returned" => offset'[v] = Blocks
    <3>1. CASE c = content[w]
      <4>1. /\ content'[w] = c /\ pc'[w] = "write" /\ offset'[w] = 0
        BY <1>2, <3>1 DEF Open, Goto
      <4>. QED BY <4>1
    <3>2. CASE c # content[w]
      BY <1>2, <2>3, <3>2 DEF Open, Goto
    <3>. QED BY <3>1, <3>2
  <2>. QED BY <2>1, <2>2, <2>3
<1>3. ASSUME NEW w \in Writers, WriteBlock(w) PROVE TypeOK' /\ HasOwner'
  <2>1. file[content[w]] \in SUBSET Whole /\ offset[w] + 1 \in Whole
    <3>1. file[content[w]] \in (SUBSET Whole) \cup {Absent} /\ file[content[w]] # Absent
      BY <1>3 DEF WriteBlock
    <3>2. offset[w] + 1 \in Whole
      BY <1>3 DEF WriteBlock, Whole
    <3>. QED BY <3>1, <3>2
  <2>2. TypeOK'
    BY <1>3, <2>1 DEF WriteBlock
  <2>3. \A v \in Writers :
          /\ pc'[v] \in {"check", "open"} => offset'[v] = 0
          /\ pc'[v] = "returned" => file'[content'[v]] # Absent
          /\ pc'[v] = "write" => file'[content'[v]] # Absent
    <3>1. file'[content[w]] \in SUBSET Whole
      BY <1>3, <2>1 DEF WriteBlock
    <3>. QED BY <1>3, <3>1 DEF WriteBlock
  <2>4. ASSUME NEW c \in Contents, file'[c] # Absent
        PROVE  \E v \in Writers :
                 /\ content'[v] = c
                 /\ pc'[v] \notin {"check", "open"}
                 /\ 1..offset'[v] \subseteq file'[c]
                 /\ pc'[v] = "returned" => offset'[v] = Blocks
    <3>1. file[c] # Absent
      BY <1>3, <2>4 DEF WriteBlock
    <3>2. PICK v \in Writers : /\ content[v] = c
                               /\ pc[v] \notin {"check", "open"}
                               /\ 1..offset[v] \subseteq file[c]
                               /\ pc[v] = "returned" => offset[v] = Blocks
      BY <3>1
    <3>3. CASE v = w
      <4>1. /\ content'[w] = c /\ pc'[w] = "write" /\ offset'[w] = offset[w] + 1
            /\ file'[c] = file[c] \cup {offset[w] + 1}
        BY <1>3, <3>2, <3>3 DEF WriteBlock
      <4>. QED BY <3>2, <3>3, <4>1
    <3>4. CASE v # w
      BY <1>3, <3>2, <3>4 DEF WriteBlock
    <3>. QED BY <3>3, <3>4
  <2>. QED BY <2>2, <2>3, <2>4
<1>4. ASSUME NEW w \in Writers, Return(w) PROVE TypeOK' /\ HasOwner'
  BY <1>4 DEF Return, Goto
<1>5. ASSUME NEW w \in Writers, Raise(w) PROVE TypeOK' /\ HasOwner'
  BY <1>5 DEF Raise, Goto
<1>6. ASSUME NEW w \in Writers, Crash(w) PROVE TypeOK' /\ HasOwner'
  BY <1>6 DEF Crash, Goto
<1>7. CASE UNCHANGED vars
  BY <1>7 DEF vars
<1>. QED BY <1>1, <1>2, <1>3, <1>4, <1>5, <1>6, <1>7 DEF Next

LEMMA OwnerSettles ==
  ASSUME TypeOK, HasOwner
  PROVE  SettledIsWhole
<1>. SUFFICES ASSUME NEW c \in Contents,
                     NEW r \in Writers, content[r] = c, pc[r] = "returned",
                     \A w \in Writers : content[w] = c => pc[w] \in {"check", "returned"}
              PROVE  file[c] = Whole
  BY DEF SettledIsWhole
<1>1. file[c] # Absent
  BY DEF HasOwner
<1>2. PICK v \in Writers : /\ content[v] = c
                           /\ pc[v] \notin {"check", "open"}
                           /\ 1..offset[v] \subseteq file[c]
                           /\ pc[v] = "returned" => offset[v] = Blocks
  BY <1>1 DEF HasOwner
<1>3. Whole \subseteq file[c]
  BY <1>2 DEF Whole
<1>4. file[c] \in (SUBSET Whole) \cup {Absent}
  BY DEF TypeOK
<1>. QED BY <1>1, <1>3, <1>4

LEMMA Stored == Spec => [](TypeOK /\ HasOwner)
<1>1. TypeOK /\ HasOwner /\ [Next]_vars => TypeOK' /\ HasOwner'
  BY StoreStep
<1>. QED BY InitStore, <1>1, PTL DEF Spec

(* Calls, offsets and the blocks on disk stay within their types.           *)
THEOREM StoreTyped == Spec => []TypeOK
BY Stored, PTL

(* ArtifactStore.register: once the calls for a content have all finished   *)
(* undisturbed, the content is on disk, whatever their interleaving.        *)
THEOREM RegisteredContentIsStored == Spec => []SettledIsWhole
<1>1. TypeOK /\ HasOwner => SettledIsWhole
  BY OwnerSettles
<1>. QED BY <1>1, Stored, PTL

-----------------------------------------------------------------------------
(* Calls for one content that do not overlap.                               *)

LEMMA CheckStep ==
  ASSUME TypeOK, CheckHolds, CallsApart, [Next]_vars
  PROVE  /\ CheckHolds'
         /\ \A c \in Contents : file[c] = Whole => file'[c] = Whole
<1>. USE DEF TypeOK, CheckHolds
<1>1. ASSUME NEW w \in Writers, Check(w)
      PROVE  CheckHolds' /\ file' = file
  BY <1>1 DEF Check, Goto
<1>2. ASSUME NEW w \in Writers, Open(w)
      PROVE  /\ CheckHolds'
             /\ \A c \in Contents : file[c] = Whole => file'[c] = Whole
  <2>1. file[content[w]] = Absent /\ Absent # Whole
    BY <1>2, Numbers DEF Open
  <2>2. ASSUME NEW v \in Writers, pc'[v] = "open"
        PROVE  file'[content'[v]] = Absent
    <3>1. v # w /\ pc[v] = "open" /\ pc[w] = "open"
      BY <1>2, <2>2 DEF Open, Goto
    <3>2. content[v] # content[w]
      BY <3>1 DEF CallsApart, AtWork
    <3>. QED BY <1>2, <3>1, <3>2 DEF Open
  <2>3. \A c \in Contents : file[c] = Whole => file'[c] = Whole
    BY <1>2, <2>1 DEF Open
  <2>. QED BY <2>2, <2>3
<1>3. ASSUME NEW w \in Writers, WriteBlock(w)
      PROVE  /\ CheckHolds'
             /\ \A c \in Contents : file[c] = Whole => file'[c] = Whole
  <2>1. ASSUME NEW v \in Writers, pc'[v] = "open"
        PROVE  file'[content'[v]] = Absent
    <3>1. v # w /\ pc[v] = "open" /\ pc[w] = "write"
      BY <1>3, <2>1 DEF WriteBlock
    <3>2. content[v] # content[w]
      BY <3>1 DEF CallsApart, AtWork
    <3>. QED BY <1>3, <3>1, <3>2 DEF WriteBlock
  <2>2. offset[w] + 1 \in Whole
    BY <1>3, StoreAssumption DEF WriteBlock, Whole
  <2>3. \A c \in Contents : file[c] = Whole => file'[c] = Whole
    BY <1>3, <2>2 DEF WriteBlock
  <2>. QED BY <2>1, <2>3
<1>4. ASSUME NEW w \in Writers, Return(w) \/ Raise(w) \/ Crash(w)
      PROVE  CheckHolds' /\ file' = file
  BY <1>4 DEF Return, Raise, Crash, Goto
<1>5. CASE UNCHANGED vars
  BY <1>5 DEF vars
<1>. QED BY <1>1, <1>2, <1>3, <1>4, <1>5 DEF Next

(* Registered bytes are overwritten only by calls for one content that      *)
(* overlap after their check: kept apart, by whatever means, no call        *)
(* truncates a whole file, crashes and errors included.                     *)
THEOREM ApartNothingIsOverwritten == Spec /\ []CallsApart => NeverOverwritten
<1>1. Init => CheckHolds
  BY DEF Init, CheckHolds
<1>2. TypeOK /\ CheckHolds /\ CallsApart /\ [Next]_vars => CheckHolds'
  BY CheckStep
<1>3. TypeOK /\ CheckHolds /\ CallsApart /\ [Next]_vars
        => [\A c \in Contents : file[c] = Whole => file'[c] = Whole]_file
  BY CheckStep
<1>. QED BY <1>1, <1>2, <1>3, Stored, PTL DEF Spec, NeverOverwritten

=============================================================================
