-------------------------- MODULE SourceCacheProofs --------------------------
(***************************************************************************)
(* Theorems about SourceCache for any bridges, URIs, archives and targets. *)
(* The inductive invariant says what is known of a URI before and after    *)
(* the bridge has looked at it; the safety half of SourceDelivery follows.  *)
(***************************************************************************)
EXTENDS SourceCache, TLAPS

-----------------------------------------------------------------------------
(* The inductive invariant.                                                *)

(* Where a bridge is in its message, and what it found out on the way.     *)
Placed(b) ==
    /\ pc[b] = "next" => at[b] <= Len(msg[b]) + 1
    /\ pc[b] \in {"extract", "read", "create", "fill"} =>
          at[b] <= Len(msg[b]) /\ Parses(Current(b))
    /\ pc[b] \in {"create", "fill"} => Readable(Target(b))
InMessage == \A b \in Bridges : Placed(b)

(* There are files of archives only, and only they can be cut short.       *)
FilesOfArchives == /\ \A t \in Targets : disk[t] # "absent" => t \in present
                   /\ cut \subseteq present

(* A URI that is remembered or replaced has its file.                      *)
Known(b) == \A u \in mem[b] \cup given[b] : Parses(u) /\ disk[TargetOf[u]] # "absent"
KnownFiles == \A b \in Bridges : Known(b)

(* What was replaced is of this message, and nothing before `at` was left  *)
(* out that could have been extracted.                                     *)
Done(b) ==
    /\ given[b] \subseteq Elements(msg[b])
    /\ \A i \in 1..Len(msg[b]) :
          i < at[b] /\ Parses(msg[b][i]) /\ Readable(TargetOf[msg[b][i]])
             => msg[b][i] \in given[b] \/ TargetOf[msg[b][i]] \in cut
Replaced == \A b \in Bridges : Done(b)

IInv == /\ TypeOK /\ InMessage /\ FilesOfArchives /\ KnownFiles /\ Replaced
        /\ TornIsBeingWritten

-----------------------------------------------------------------------------
(* What a bridge looks at.                                                 *)

LEMMA MessageType ==
    ASSUME NEW us \in Messages
    PROVE  /\ us \in Seq(Uris) /\ Len(us) \in 0..2 /\ DOMAIN us = 1..Len(us)
           /\ Elements(us) \subseteq Uris
<1>1. PICK k \in 0..2 : us \in [1..k -> Uris] BY DEF Messages
<1>2. us \in Seq(Uris) BY <1>1
<1>3. Len(us) = k /\ DOMAIN us = 1..k BY <1>1
<1> QED BY <1>1, <1>2, <1>3 DEF Elements

LEMMA EmptyMessage == <<>> \in Messages /\ Len(<<>>) = 0 /\ Elements(<<>>) = {}
<1>1. <<>> \in [1..0 -> Uris] OBVIOUS
<1> QED BY <1>1 DEF Messages, Elements

LEMMA CurrentType ==
    ASSUME TypeOK, NEW b \in Bridges, at[b] <= Len(msg[b])
    PROVE  /\ at[b] \in 1..Len(msg[b]) /\ at[b] \in 1..2
           /\ Current(b) \in Uris /\ Current(b) \in Elements(msg[b])
           /\ Target(b) \in Targets
<1>1. msg[b] \in Messages /\ at[b] \in 1..3 BY DEF TypeOK
<1>2. msg[b] \in Seq(Uris) /\ Len(msg[b]) \in 0..2 /\ DOMAIN msg[b] = 1..Len(msg[b])
  BY <1>1, MessageType
<1>a. PICK n \in 0..2 : n = Len(msg[b]) BY <1>2
<1>b. PICK i \in 1..3 : i = at[b] BY <1>1
<1>c. i <= n BY <1>a, <1>b
<1>d. i \in 1..n /\ i \in 1..2 BY <1>c
<1>3. at[b] \in 1..Len(msg[b]) /\ at[b] \in 1..2 BY <1>a, <1>b, <1>d
<1>4. Current(b) \in Uris BY <1>2, <1>3 DEF Current
<1> QED BY <1>2, <1>3, <1>4, CacheAssumption DEF Current, Target, Elements

(* What Replace and Keep leave: the bridge is past the URI.                *)
LEMMA Passes ==
    ASSUME TypeOK, NEW b \in Bridges, at[b] <= Len(msg[b]), Replace(b) \/ Keep(b)
    PROVE  /\ at' = [at EXCEPT ![b] = at[b] + 1] /\ at' \in [Bridges -> 1..3]
           /\ pc' = [pc EXCEPT ![b] = "next"]
           /\ given' \in [Bridges -> SUBSET Uris]
<1>1. at[b] \in 1..2 /\ Current(b) \in Uris BY CurrentType
<1>2. /\ pc' = [pc EXCEPT ![b] = "next"] /\ at' = [at EXCEPT ![b] = at[b] + 1]
      /\ given' = given \/ given' = [given EXCEPT ![b] = given[b] \cup {Current(b)}]
  BY DEF Replace, Keep
<1>3. at \in [Bridges -> 1..3] /\ given \in [Bridges -> SUBSET Uris] BY DEF TypeOK
<1>4. at[b] + 1 \in 1..3 BY <1>1
<1>5. given[b] \cup {Current(b)} \in SUBSET Uris BY <1>1, <1>3
<1>6. at' \in [Bridges -> 1..3] BY <1>2, <1>3, <1>4
<1>7. given' \in [Bridges -> SUBSET Uris] BY <1>2, <1>3, <1>5
<1> QED BY <1>2, <1>6, <1>7

-----------------------------------------------------------------------------
(* Type correctness, which needs to know where a bridge is in its message. *)

LEMMA StepType == TypeOK /\ InMessage /\ [Next]_vars => TypeOK'
<1> SUFFICES ASSUME TypeOK, InMessage, [Next]_vars PROVE TypeOK' OBVIOUS
<1> USE DEF history
<1>1. CASE UNCHANGED vars BY <1>1 DEF TypeOK, vars
<1>2. ASSUME NEW b \in Bridges, NEW us \in Messages, Route(b, us) PROVE TypeOK'
  BY <1>2, CacheAssumption DEF TypeOK, Route
<1>3. ASSUME NEW b \in Bridges, LookUp(b) PROVE TypeOK'
  <2>1. CASE Replace(b) \/ Keep(b) BY <1>3, <2>1, Passes DEF TypeOK, LookUp
  <2>2. CASE pc' = [pc EXCEPT ![b] = "extract"] /\ UNCHANGED <<at, given>>
    BY <1>3, <2>2 DEF TypeOK, LookUp
  <2> QED BY <1>3, <2>1, <2>2 DEF LookUp
<1>4. ASSUME NEW b \in Bridges, Extracted(b) PROVE TypeOK'
  <2>1. at[b] <= Len(msg[b]) BY <1>4 DEF InMessage, Placed, Extracted
  <2>2. Current(b) \in Uris BY <2>1, CurrentType
  <2>3. mem' \in [Bridges -> SUBSET Uris] BY <1>4, <2>2 DEF Extracted, Remembered, TypeOK
  <2> QED BY <1>4, <2>1, <2>3, Passes DEF TypeOK, Extracted
<1>5. ASSUME NEW b \in Bridges, NotExtracted(b) PROVE TypeOK'
  BY <1>5 DEF TypeOK, NotExtracted
<1>6. ASSUME NEW b \in Bridges, ReadFromZip(b) PROVE TypeOK'
  <2>1. at[b] <= Len(msg[b]) BY <1>6 DEF InMessage, Placed, ReadFromZip
  <2>2. CASE Keep(b) BY <1>6, <2>1, <2>2, Passes DEF TypeOK, ReadFromZip
  <2>3. CASE pc' = [pc EXCEPT ![b] = "create"] /\ UNCHANGED <<at, given>>
    BY <1>6, <2>3 DEF TypeOK, ReadFromZip
  <2> QED BY <1>6, <2>2, <2>3 DEF ReadFromZip
<1>7. ASSUME NEW b \in Bridges, Create(b) PROVE TypeOK'
  BY <1>7 DEF TypeOK, Create
<1>8. ASSUME NEW b \in Bridges, Fill(b) PROVE TypeOK'
  <2>1. at[b] <= Len(msg[b]) BY <1>8 DEF InMessage, Placed, Fill
  <2>2. Current(b) \in Uris BY <2>1, CurrentType
  <2>3. mem' \in [Bridges -> SUBSET Uris] BY <1>8, <2>2 DEF Fill, Remembered, TypeOK
  <2>4. disk' \in [Targets -> {"absent", "partial", "full"}]
    BY <1>8 DEF Fill, Content, TypeOK
  <2> QED BY <1>8, <2>1, <2>3, <2>4, Passes DEF TypeOK, Fill
<1>9. ASSUME NEW b \in Bridges, WriteFails(b) PROVE TypeOK'
  <2>1. at[b] <= Len(msg[b]) BY <1>9 DEF InMessage, Placed, WriteFails
  <2>2. Target(b) \in Targets BY <2>1, CurrentType
  <2>3. cut' \subseteq Targets BY <1>9, <2>2 DEF WriteFails, TypeOK
  <2> QED BY <1>9, <2>1, <2>3, Passes DEF TypeOK, WriteFails
<1>10. ASSUME NEW b \in Bridges, Forward(b) PROVE TypeOK'
  BY <1>10, EmptyMessage DEF TypeOK, Forward, Idle
<1>11. ASSUME NEW b \in Bridges, Crash(b) PROVE TypeOK'
  <2>1. cut' \subseteq Targets
    <3>1. CASE pc[b] = "fill"
      <4>1. Target(b) \in Targets BY <3>1, CurrentType DEF InMessage, Placed
      <4> QED BY <1>11, <4>1 DEF Crash, TypeOK
    <3>2. CASE pc[b] # "fill" BY <1>11, <3>2 DEF Crash, TypeOK
    <3> QED BY <3>1, <3>2
  <2> QED BY <1>11, <2>1, EmptyMessage DEF TypeOK, Crash, Idle
<1> QED
  BY <1>1, <1>2, <1>3, <1>4, <1>5, <1>6, <1>7, <1>8, <1>9, <1>10, <1>11
  DEF Next, Forwarding

-----------------------------------------------------------------------------
(* The other parts. A step is one bridge's: what it leaves of the others.  *)

SameBridge(b) == /\ mem'[b] = mem[b] /\ pc'[b] = pc[b] /\ msg'[b] = msg[b]
                 /\ at'[b] = at[b] /\ given'[b] = given[b]

(* Files are never removed, and come with an archive.                      *)
DiskGrows ==
    /\ present' = present /\ cut \subseteq cut' /\ cut' \subseteq present
    /\ \A t \in Targets : /\ disk[t] # "absent" => disk'[t] # "absent"
                          /\ disk'[t] # "absent" => t \in present

(* A file that is torn is being written, or its last writer failed.        *)
TornBy(b) ==
    /\ \A t \in Targets : disk'[t] = "partial" =>
          disk[t] = "partial" \/ (pc'[b] = "fill" /\ Target(b)' = t)
    /\ pc[b] = "fill" => disk'[Target(b)] = "full" \/ Target(b) \in cut'

LEMMA OneBridge ==
    ASSUME IInv, TypeOK', NEW b \in Bridges,
           \A c \in Bridges \ {b} : SameBridge(c),
           DiskGrows, TornBy(b), Placed(b)', Known(b)', Done(b)'
    PROVE  IInv'
<1> USE DEF Parses, Readable, Current, Target
<1>1. ASSUME NEW c \in Bridges, c # b
      PROVE  Placed(c)' /\ Known(c)' /\ Done(c)'
  <2>1. Placed(c) /\ Known(c) /\ Done(c) BY DEF IInv, InMessage, KnownFiles, Replaced
  <2>2. SameBridge(c) BY <1>1
  <2>3. Placed(c)' BY <2>1, <2>2 DEF SameBridge, Placed, DiskGrows
  <2>4. Known(c)'
    <3>1. \A u \in mem[c] \cup given[c] : TargetOf[u] \in Targets
      BY CacheAssumption DEF IInv, TypeOK
    <3> QED BY <2>1, <2>2, <3>1 DEF SameBridge, Known, DiskGrows
  <2>5. Done(c)' BY <2>1, <2>2 DEF SameBridge, Done, DiskGrows, Elements
  <2> QED BY <2>3, <2>4, <2>5
<1>2. InMessage' /\ KnownFiles' /\ Replaced' BY <1>1 DEF InMessage, KnownFiles, Replaced
<1>3. FilesOfArchives' BY DEF DiskGrows, FilesOfArchives
<1>4. TornIsBeingWritten'
  <2> SUFFICES ASSUME NEW t \in Targets, disk'[t] = "partial", t \notin cut'
               PROVE  \E c \in Bridges : pc'[c] = "fill" /\ Target(c)' = t
    BY DEF TornIsBeingWritten
  <2>1. CASE pc'[b] = "fill" /\ Target(b)' = t BY <2>1
  <2>2. CASE disk[t] = "partial"
    <3>1. t \notin cut BY DEF DiskGrows
    <3>2. PICK c \in Bridges : pc[c] = "fill" /\ Target(c) = t
      BY <2>2, <3>1 DEF IInv, TornIsBeingWritten
    <3>3. c # b BY <3>2 DEF TornBy
    <3> QED BY <3>2, <3>3 DEF SameBridge
  <2> QED BY <2>1, <2>2 DEF TornBy
<1> QED BY <1>2, <1>3, <1>4 DEF IInv

(* Going past a URI, with it replaced or where it could not be.            *)
LEMMA PassedOn ==
    ASSUME IInv, NEW b \in Bridges, at[b] <= Len(msg[b]), DiskGrows,
           \/ Replace(b) /\ Parses(Current(b)) /\ disk'[Target(b)] # "absent"
           \/ /\ Keep(b)
              /\ Parses(Current(b)) /\ Readable(Target(b)) => Target(b) \in cut',
           mem' = mem \/ (mem' = [mem EXCEPT ![b] = Remembered(b)] /\ Replace(b)),
           msg' = msg
    PROVE  /\ Placed(b)' /\ Known(b)' /\ Done(b)' /\ pc'[b] = "next"
           /\ \A c \in Bridges \ {b} : SameBridge(c)
<1>1. /\ at[b] \in 1..Len(msg[b]) /\ at[b] \in 1..2 /\ Current(b) \in Uris
      /\ Current(b) \in Elements(msg[b])
  BY CurrentType DEF IInv
<1>2. /\ pc \in [Bridges -> {"idle", "next", "extract", "read", "create", "fill"}]
      /\ at \in [Bridges -> 1..3] /\ given \in [Bridges -> SUBSET Uris]
      /\ mem \in [Bridges -> SUBSET Uris]
  BY DEF IInv, TypeOK
<1>3. at'[b] = at[b] + 1 /\ pc'[b] = "next" BY <1>2 DEF Replace, Keep
<1>4. \/ given'[b] = given[b] \cup {Current(b)} /\ Replace(b)
      \/ given'[b] = given[b] /\ Keep(b)
  BY <1>2 DEF Replace, Keep
<1>5. \A c \in Bridges \ {b} : SameBridge(c)
  BY <1>2 DEF Replace, Keep, SameBridge
<1>6. Len(msg[b]) \in Nat BY MessageType DEF IInv, TypeOK
<1>7. Placed(b)' BY <1>1, <1>3, <1>6 DEF Placed
<1>8. Known(b)'
  <2>1. \A u \in mem[b] \cup given[b] :
           Parses(u) /\ disk[TargetOf[u]] # "absent" /\ TargetOf[u] \in Targets
    BY <1>2, CacheAssumption DEF IInv, KnownFiles, Known
  <2>2. \A u \in mem'[b] \cup given'[b] :
           u \in mem[b] \cup given[b] \/ (u = Current(b) /\ Replace(b))
    BY <1>2, <1>4 DEF Remembered
  <2>3. Replace(b) => \/ Current(b) \in given[b]
                      \/ Parses(Current(b)) /\ disk'[TargetOf[Current(b)]] # "absent"
    <3>1. Replace(b) /\ Keep(b) => Current(b) \in given[b]
      <4>1. Replace(b) => Current(b) \in given'[b] BY <1>2 DEF Replace
      <4>2. Keep(b) => given' = given BY DEF Keep
      <4> QED BY <4>1, <4>2
    <3> QED BY <3>1 DEF Target
  <2> QED BY <2>1, <2>2, <2>3 DEF Known, DiskGrows, Parses
<1>9. Done(b)'
  <2>1. given'[b] \subseteq Elements(msg'[b])
    BY <1>1, <1>4 DEF IInv, Replaced, Done
  <2>2. ASSUME NEW i \in 1..Len(msg[b]), i < at'[b], Parses(msg[b][i]),
               Readable(TargetOf[msg[b][i]])
        PROVE  msg[b][i] \in given'[b] \/ TargetOf[msg[b][i]] \in cut'
    <3>1. CASE i < at[b]
      BY <1>4, <2>2, <3>1 DEF IInv, Replaced, Done, DiskGrows
    <3>2. CASE i = at[b]
      <4>1. msg[b][i] = Current(b) BY <3>2 DEF Current
      <4>2. Replace(b) => Current(b) \in given'[b] BY <1>2 DEF Replace
      <4>3. Replace(b) \/ Target(b) \in cut' BY <2>2, <4>1 DEF Target
      <4> QED BY <4>1, <4>2, <4>3 DEF Target
    <3>3. i \in Nat /\ at[b] \in Nat /\ i < at[b] + 1 BY <1>1, <1>3, <1>6, <2>2
    <3>4. i < at[b] \/ i = at[b] BY <3>3
    <3> QED BY <3>1, <3>2, <3>4
  <2> QED BY <2>1, <2>2 DEF Done, Parses, Readable, DiskGrows
<1> QED BY <1>3, <1>5, <1>7, <1>8, <1>9

-----------------------------------------------------------------------------
(* Every step of a bridge.                                                 *)

LEMMA StepInv == IInv /\ [Next]_vars => IInv'
<1> SUFFICES ASSUME IInv, [Next]_vars PROVE IInv' OBVIOUS
<1>t. TypeOK' BY StepType DEF IInv
<1>a. /\ pc \in [Bridges -> {"idle", "next", "extract", "read", "create", "fill"}]
      /\ disk \in [Targets -> {"absent", "partial", "full"}]
      /\ mem \in [Bridges -> SUBSET Uris] /\ given \in [Bridges -> SUBSET Uris]
      /\ msg \in [Bridges -> Messages] /\ at \in [Bridges -> 1..3]
  BY DEF IInv, TypeOK
<1>b. FilesOfArchives BY DEF IInv
<1>c. ASSUME UNCHANGED <<present, disk, cut>> PROVE DiskGrows
  BY <1>b, <1>c DEF DiskGrows, FilesOfArchives
<1>d. ASSUME UNCHANGED disk, NEW b \in Bridges, pc[b] # "fill" PROVE TornBy(b)
  BY <1>d DEF TornBy
<1>e. ASSUME NEW b \in Bridges PROVE Placed(b) /\ Known(b) /\ Done(b)
  BY DEF IInv, InMessage, KnownFiles, Replaced
<1>f. ASSUME NEW b \in Bridges, at[b] <= Len(msg[b])
      PROVE  Target(b) \in Targets /\ TargetOf[Current(b)] = Target(b)
  BY <1>f, CurrentType DEF IInv, Target
<1> USE DEF history
<1>1. CASE UNCHANGED vars
  BY <1>1, <1>t DEF vars, IInv, InMessage, Placed, FilesOfArchives, KnownFiles, Known,
     Replaced, Done, Elements, Parses, Readable, Current, Target, TornIsBeingWritten
<1>2. ASSUME NEW b \in Bridges, NEW us \in Messages, Route(b, us) PROVE IInv'
  <2>1. /\ pc[b] = "idle" /\ pc' = [pc EXCEPT ![b] = "next"]
        /\ msg' = [msg EXCEPT ![b] = us] /\ at' = [at EXCEPT ![b] = 1]
        /\ given' = [given EXCEPT ![b] = {}] /\ UNCHANGED <<present, disk, mem, cut>>
    BY <1>2 DEF Route
  <2>2. \A c \in Bridges \ {b} : SameBridge(c) BY <1>a, <2>1 DEF SameBridge
  <2>3. DiskGrows /\ TornBy(b) BY <1>c, <1>d, <2>1
  <2>4. Len(us) \in Nat BY MessageType
  <2>5. pc'[b] = "next" /\ msg'[b] = us /\ at'[b] = 1 /\ given'[b] = {}
    BY <1>a, <2>1
  <2>6. Placed(b)' BY <2>4, <2>5 DEF Placed
  <2>7. Known(b)' BY <1>e, <2>1, <2>5 DEF Known, Parses
  <2>8. Done(b)' BY <2>4, <2>5 DEF Done
  <2> QED BY <1>t, <2>2, <2>3, <2>6, <2>7, <2>8, OneBridge
(* A step within the extraction of one URI.                                *)
<1>3. ASSUME NEW b \in Bridges, NEW s \in {"extract", "read", "create"},
             pc[b] \in {"next", "extract", "read"}, pc' = [pc EXCEPT ![b] = s],
             at[b] <= Len(msg[b]), Parses(Current(b)), s = "create" => Readable(Target(b)),
             UNCHANGED <<present, disk, mem, msg, at, given, cut>>
      PROVE  IInv'
  <2>1. \A c \in Bridges \ {b} : SameBridge(c) BY <1>a, <1>3 DEF SameBridge
  <2>2. DiskGrows /\ TornBy(b) BY <1>c, <1>d, <1>3
  <2>3. pc'[b] = s BY <1>a, <1>3
  <2>4. Placed(b)' BY <1>3, <2>3 DEF Placed, Parses, Readable, Current, Target
  <2>5. Known(b)' BY <1>e, <1>3 DEF Known, Parses
  <2>6. Done(b)' BY <1>e, <1>3 DEF Done, Elements, Parses, Readable
  <2> QED BY <1>t, <2>1, <2>2, <2>4, <2>5, <2>6, OneBridge
<1>4. ASSUME NEW b \in Bridges, LookUp(b) PROVE IInv'
  <2>1. /\ pc[b] = "next" /\ at[b] <= Len(msg[b])
        /\ UNCHANGED <<present, disk, mem, msg, cut>>
    BY <1>4 DEF LookUp
  <2>2. DiskGrows /\ TornBy(b) BY <1>c, <1>d, <2>1
  <2>3. CASE Current(b) \in mem[b] /\ Replace(b)
    <3>1. Parses(Current(b)) /\ disk[Target(b)] # "absent"
      BY <1>e, <2>3 DEF Known, Target
    <3> QED BY <1>t, <2>1, <2>2, <2>3, <3>1, PassedOn, OneBridge
  <2>4. CASE ~Parses(Current(b)) /\ Keep(b)
    BY <1>t, <2>1, <2>2, <2>4, PassedOn, OneBridge
  <2>5. CASE Parses(Current(b)) /\ pc' = [pc EXCEPT ![b] = "extract"]
             /\ UNCHANGED <<at, given>>
    BY <1>3, <2>1, <2>5
  <2> QED BY <1>4, <2>3, <2>4, <2>5 DEF LookUp
<1>5. ASSUME NEW b \in Bridges, Extracted(b) PROVE IInv'
  <2>1. /\ pc[b] = "extract" /\ disk[Target(b)] # "absent" /\ Replace(b)
        /\ mem' = [mem EXCEPT ![b] = Remembered(b)]
        /\ UNCHANGED <<present, disk, msg, cut>>
    BY <1>5 DEF Extracted
  <2>2. at[b] <= Len(msg[b]) /\ Parses(Current(b)) BY <1>e, <2>1 DEF Placed
  <2>3. DiskGrows /\ TornBy(b) BY <1>c, <1>d, <2>1
  <2> QED BY <1>t, <2>1, <2>2, <2>3, PassedOn, OneBridge
<1>6. ASSUME NEW b \in Bridges, NotExtracted(b) PROVE IInv'
  BY <1>3, <1>e, <1>6 DEF NotExtracted, Placed
<1>7. ASSUME NEW b \in Bridges, ReadFromZip(b) PROVE IInv'
  <2>1. pc[b] = "read" /\ UNCHANGED <<present, disk, mem, msg, cut>>
    BY <1>7 DEF ReadFromZip
  <2>2. at[b] <= Len(msg[b]) /\ Parses(Current(b)) BY <1>e, <2>1 DEF Placed
  <2>3. CASE /\ Readable(Target(b)) /\ pc' = [pc EXCEPT ![b] = "create"]
             /\ UNCHANGED <<at, given>>
    BY <1>3, <2>1, <2>2, <2>3
  <2>4. CASE ~Readable(Target(b)) /\ Keep(b)
    <3>1. DiskGrows /\ TornBy(b) BY <1>c, <1>d, <2>1
    <3> QED BY <1>t, <2>1, <2>2, <2>4, <3>1, PassedOn, OneBridge
  <2> QED BY <1>7, <2>3, <2>4 DEF ReadFromZip
<1>8. ASSUME NEW b \in Bridges, Create(b) PROVE IInv'
  <2>1. /\ pc[b] = "create" /\ disk' = [disk EXCEPT ![Target(b)] = "partial"]
        /\ pc' = [pc EXCEPT ![b] = "fill"]
        /\ UNCHANGED <<present, mem, msg, at, given, cut>>
    BY <1>8 DEF Create
  <2>2. /\ at[b] <= Len(msg[b]) /\ Parses(Current(b)) /\ Readable(Target(b))
        /\ Target(b) \in Targets
    BY <1>e, <1>f, <2>1 DEF Placed
  <2>3. \A c \in Bridges \ {b} : SameBridge(c) BY <1>a, <2>1 DEF SameBridge
  <2>4. pc'[b] = "fill" /\ Target(b)' = Target(b) BY <1>a, <2>1 DEF Target, Current
  <2>5. DiskGrows
    BY <1>a, <1>b, <2>1, <2>2 DEF DiskGrows, FilesOfArchives, Readable
  <2>6. TornBy(b) BY <1>a, <2>1, <2>2, <2>4 DEF TornBy
  <2>7. Placed(b)' BY <2>1, <2>2, <2>4 DEF Placed, Parses, Readable, Current
  <2>8. Known(b)'
    <3>1. \A u \in mem[b] \cup given[b] : TargetOf[u] \in Targets
      BY <1>a, CacheAssumption
    <3> QED BY <1>e, <2>1, <2>5, <3>1 DEF Known, Parses, DiskGrows
  <2>9. Done(b)' BY <1>e, <2>1 DEF Done, Elements, Parses, Readable
  <2> QED BY <1>t, <2>3, <2>5, <2>6, <2>7, <2>8, <2>9, OneBridge
<1>9. ASSUME NEW b \in Bridges, Fill(b) PROVE IInv'
  <2>1. /\ pc[b] = "fill" /\ disk' = [disk EXCEPT ![Target(b)] = Content(Target(b))]
        /\ mem' = [mem EXCEPT ![b] = Remembered(b)] /\ Replace(b)
        /\ UNCHANGED <<present, msg, cut>>
    BY <1>9 DEF Fill
  <2>2. /\ at[b] <= Len(msg[b]) /\ Parses(Current(b)) /\ Readable(Target(b))
        /\ Target(b) \in Targets
    BY <1>e, <1>f, <2>1 DEF Placed
  <2>3. Target(b) \in present /\ Content(Target(b)) = "full"
    BY <2>2 DEF Readable, Content
  <2>4. disk'[Target(b)] = "full" BY <1>a, <2>1, <2>2, <2>3
  <2>5. DiskGrows BY <1>a, <1>b, <2>1, <2>2, <2>3 DEF DiskGrows, FilesOfArchives
  <2>6. TornBy(b) BY <1>a, <2>1, <2>2, <2>3, <2>4 DEF TornBy
  <2> QED BY <1>t, <2>1, <2>2, <2>4, <2>5, <2>6, PassedOn, OneBridge
<1>10. ASSUME NEW b \in Bridges, WriteFails(b) PROVE IInv'
  <2>1. /\ pc[b] \in {"create", "fill"} /\ Keep(b) /\ cut' = cut \cup {Target(b)}
        /\ UNCHANGED <<present, disk, mem, msg>>
    BY <1>10 DEF WriteFails
  <2>2. at[b] <= Len(msg[b]) /\ Target(b) \in present
    BY <1>e, <2>1 DEF Placed, Readable
  <2>3. DiskGrows BY <1>b, <2>1, <2>2 DEF DiskGrows, FilesOfArchives
  <2>4. TornBy(b) BY <2>1 DEF TornBy
  <2>5. Target(b) \in cut' BY <2>1
  <2> QED BY <1>t, <2>1, <2>2, <2>3, <2>4, <2>5, PassedOn, OneBridge
(* The message is done with, or lost.                                      *)
<1>11. ASSUME NEW b \in Bridges, Idle(b), UNCHANGED <<present, disk>>,
              mem' = mem \/ mem' = [mem EXCEPT ![b] = {}],
              cut \subseteq cut', cut' \subseteq present,
              pc[b] = "fill" => Target(b) \in cut'
       PROVE  IInv'
  <2>1. /\ pc'[b] = "idle" /\ msg'[b] = <<>> /\ at'[b] = 1 /\ given'[b] = {}
        /\ \A c \in Bridges \ {b} : SameBridge(c)
    BY <1>a, <1>11 DEF Idle, SameBridge
  <2>2. DiskGrows BY <1>b, <1>11 DEF DiskGrows, FilesOfArchives
  <2>3. TornBy(b) BY <1>11 DEF TornBy
  <2>4. Placed(b)' BY <2>1 DEF Placed
  <2>5. Known(b)'
    <3>1. mem'[b] \subseteq mem[b] BY <1>a, <1>11
    <3> QED BY <1>e, <1>11, <2>1, <3>1 DEF Known, Parses
  <2>6. Done(b)' BY <2>1, EmptyMessage DEF Done
  <2> QED BY <1>t, <2>1, <2>2, <2>3, <2>4, <2>5, <2>6, OneBridge
<1>12. ASSUME NEW b \in Bridges, Forward(b) PROVE IInv'
  <2>1. Idle(b) /\ pc[b] = "next" /\ UNCHANGED <<present, disk, mem, cut>>
    BY <1>12 DEF Forward
  <2>2. cut \subseteq cut' /\ cut' \subseteq present /\ pc[b] # "fill"
    BY <1>b, <2>1 DEF FilesOfArchives
  <2> QED BY <1>11, <2>1, <2>2
<1>13. ASSUME NEW b \in Bridges, Crash(b) PROVE IInv'
  <2>1. pc[b] = "fill" => Target(b) \in present BY <1>e DEF Placed, Readable
  <2>2. cut' = IF pc[b] = "fill" THEN cut \cup {Target(b)} ELSE cut BY <1>13 DEF Crash
  <2>3. cut \subseteq cut' /\ cut' \subseteq present /\ (pc[b] = "fill" => Target(b) \in cut')
    BY <1>b, <2>1, <2>2 DEF FilesOfArchives
  <2> QED BY <1>11, <1>13, <2>3 DEF Crash
<1> QED
  BY <1>1, <1>2, <1>4, <1>5, <1>6, <1>7, <1>8, <1>9, <1>10, <1>12, <1>13
  DEF Next, Forwarding

LEMMA InitInv == Init => IInv
<1> SUFFICES ASSUME Init PROVE IInv OBVIOUS
<1>1. TypeOK BY EmptyMessage, CacheAssumption DEF Init, TypeOK
<1>2. /\ pc = [b \in Bridges |-> "idle"] /\ msg = [b \in Bridges |-> <<>>]
      /\ mem = [b \in Bridges |-> {}] /\ given = [b \in Bridges |-> {}]
      /\ disk = [t \in Targets |-> "absent"] /\ cut = {}
  BY DEF Init
<1>3. InMessage BY <1>2 DEF InMessage, Placed
<1>4. FilesOfArchives /\ TornIsBeingWritten
  BY <1>2 DEF FilesOfArchives, TornIsBeingWritten
<1>5. KnownFiles BY <1>2 DEF KnownFiles, Known
<1>6. Replaced
  <2> SUFFICES ASSUME NEW b \in Bridges PROVE Done(b) BY DEF Replaced
  <2>1. given[b] = {} /\ Len(msg[b]) = 0 BY <1>2, EmptyMessage
  <2>2. 1..Len(msg[b]) = {} BY <2>1
  <2> QED BY <2>1, <2>2 DEF Done
<1> QED BY <1>1, <1>3, <1>4, <1>5, <1>6 DEF IInv

LEMMA Invariance == Spec => []IInv
  BY InitInv, StepInv, PTL DEF Spec

(* Type correctness for any bridges, URIs and archives.                    *)
THEOREM TypeCorrect == Spec => []TypeOK
<1>1. IInv => TypeOK BY DEF IInv
<1> QED BY <1>1, Invariance, PTL

(* However many bridges write the same file over each other, a torn file   *)
(* has a writer at it or had one that failed or was killed                 *)
(* (jars.rs:116-123).                                                      *)
THEOREM TornFilesAreExplained == Spec => []TornIsBeingWritten
<1>1. IInv => TornIsBeingWritten BY DEF IInv
<1> QED BY <1>1, Invariance, PTL

(* Where the slash of a Unix path is not lost, a message leaves with a     *)
(* file for every source of an archive that is there, unless writing it    *)
(* failed (lsp.rs:121-135). On Unix it is not so, and a run shows it.      *)
THEOREM SourcesOpenElsewhere == ASSUME ~Unix PROVE Spec => []SourcesOpen
<1>1. IInv => SourcesOpen
  <2> SUFFICES ASSUME IInv, NEW b \in Bridges, at[b] > Len(msg[b]),
                      NEW i \in 1..Len(msg[b]), Parses(msg[b][i]),
                      TargetOf[msg[b][i]] \in present
               PROVE  msg[b][i] \in given[b] \/ TargetOf[msg[b][i]] \in cut
    <3>1. ASSUME IInv, NEW b \in Bridges PROVE DOMAIN msg[b] = 1..Len(msg[b])
      <4>1. msg[b] \in Messages BY <3>1 DEF IInv, TypeOK
      <4> QED BY <4>1, MessageType
    <3> QED BY <3>1 DEF SourcesOpen, Elements
  <2>a. msg \in [Bridges -> Messages] /\ at \in [Bridges -> 1..3] BY DEF IInv, TypeOK
  <2>b. msg[b] \in Messages BY <2>a
  <2>c. at[b] \in 1..3 BY <2>a
  <2>1. Len(msg[b]) \in Nat /\ at[b] \in Nat BY <2>b, <2>c, MessageType
  <2>2. i < at[b] BY <2>1
  <2>3. Readable(TargetOf[msg[b][i]]) BY DEF Readable
  <2> QED BY <2>2, <2>3 DEF IInv, Replaced, Done
<1> QED BY <1>1, Invariance, PTL

-----------------------------------------------------------------------------
(* The refinement of SourceDelivery, its safety half.                      *)

(* What a step does to the files, and what only ends a message does.       *)
LEMMA FilesStay ==
    ASSUME IInv, [Next]_vars
    PROVE  /\ present' = present /\ cut \subseteq cut'
           /\ \A t \in Targets : disk[t] # "absent" => disk'[t] # "absent"
<1> USE DEF history
<1>1. disk \in [Targets -> {"absent", "partial", "full"}] BY DEF IInv, TypeOK
<1>2. CASE UNCHANGED vars BY <1>2 DEF vars
<1>3. ASSUME NEW b \in Bridges, NEW us \in Messages, Route(b, us)
      PROVE UNCHANGED <<present, cut, disk>>
  BY <1>3 DEF Route
<1>4. ASSUME NEW b \in Bridges,
             LookUp(b) \/ Extracted(b) \/ NotExtracted(b) \/ ReadFromZip(b) \/ Forward(b)
      PROVE  UNCHANGED <<present, cut, disk>>
  BY <1>4 DEF LookUp, Extracted, NotExtracted, ReadFromZip, Forward
<1>5. ASSUME NEW b \in Bridges, Create(b) \/ Fill(b)
      PROVE  /\ present' = present /\ cut' = cut
             /\ \A t \in Targets : disk[t] # "absent" => disk'[t] # "absent"
  BY <1>1, <1>5 DEF Create, Fill, Content
<1>6. ASSUME NEW b \in Bridges, WriteFails(b) \/ Crash(b)
      PROVE  present' = present /\ disk' = disk /\ cut \subseteq cut'
  BY <1>6 DEF WriteFails, Crash
<1> QED BY <1>2, <1>3, <1>4, <1>5, <1>6 DEF Next, Forwarding

LEMMA Extracts == ASSUME IInv, [Next]_vars PROVE Delivery!Extract
<1>1. /\ present' = present /\ cut \subseteq cut'
      /\ \A t \in Targets : disk[t] # "absent" => disk'[t] # "absent"
  BY FilesStay
<1>2. FilesOfArchives' BY StepInv DEF IInv
<1>3. \A u \in Uris : TargetOf[u] \in Targets BY CacheAssumption
<1>4. (\A t \in Targets : disk'[t] # "absent" => t \in present) /\ cut' \subseteq present
  BY <1>1, <1>2 DEF FilesOfArchives
<1> QED BY <1>1, <1>3, <1>4 DEF Delivery!Extract, UrisOf, Parses

(* Where a bridge is with its message, as the contract sees it.            *)
transit == [b \in Bridges |-> IF pc[b] = "idle" THEN {} ELSE {Elements(msg[b])}]

LEMMA RouteReceives ==
    ASSUME IInv, NEW b \in Bridges, NEW us \in Messages, Route(b, us)
    PROVE  Delivery!Receive(b)
<1>1. /\ pc[b] = "idle" /\ pc' = [pc EXCEPT ![b] = "next"]
      /\ msg' = [msg EXCEPT ![b] = us]
      /\ UNCHANGED <<present, disk, sent, handed, cut, lost>>
  BY DEF Route, history
<1>2. /\ pc \in [Bridges -> {"idle", "next", "extract", "read", "create", "fill"}]
      /\ msg \in [Bridges -> Messages]
  BY DEF IInv, TypeOK
<1>3. transit[b] = {} BY <1>1 DEF transit
<1>4. transit' = [transit EXCEPT ![b] = {Elements(us)}] BY <1>1, <1>2 DEF transit, Elements
<1>5. Elements(us) \in SUBSET Uris BY MessageType
<1>6. UNCHANGED <<UrisOf(present), UrisOf({t \in Targets : disk[t] # "absent"}), UrisOf(cut)>>
  BY <1>1 DEF UrisOf, Parses
<1> QED BY <1>1, <1>3, <1>4, <1>5, <1>6 DEF Delivery!Receive, Delivery!disk, transit

LEMMA ForwardDelivers ==
    ASSUME ~Unix, IInv, NEW b \in Bridges, Forward(b)
    PROVE  Delivery!Deliver(b)
<1>1. /\ pc[b] = "next" /\ at[b] > Len(msg[b])
      /\ pc' = [pc EXCEPT ![b] = "idle"] /\ msg' = [msg EXCEPT ![b] = <<>>]
      /\ sent' = [sent EXCEPT ![b] = @ + 1]
      /\ handed' = [handed EXCEPT ![b] = @ \cup given[b]]
      /\ UNCHANGED <<present, disk, cut, lost>>
  BY DEF Forward, Idle, history
<1>2. /\ pc \in [Bridges -> {"idle", "next", "extract", "read", "create", "fill"}]
      /\ msg \in [Bridges -> Messages] /\ given \in [Bridges -> SUBSET Uris]
      /\ at[b] \in Nat
  BY DEF IInv, TypeOK
<1>3. transit[b] = {Elements(msg[b])} BY <1>1 DEF transit
<1>4. transit' = [transit EXCEPT ![b] = {}] BY <1>1, <1>2 DEF transit
<1>5. UNCHANGED <<UrisOf(present), UrisOf({t \in Targets : disk[t] # "absent"}), UrisOf(cut)>>
  BY <1>1 DEF UrisOf, Parses
<1>6. Known(b) /\ Done(b) BY DEF IInv, KnownFiles, Replaced
<1>7. given[b] \subseteq UrisOf({t \in Targets : disk[t] # "absent"})
  BY <1>2, <1>6, CacheAssumption DEF Known, UrisOf
<1>8. given[b] \subseteq Elements(msg[b]) BY <1>6 DEF Done
<1>9. (Elements(msg[b]) \cap UrisOf(present)) \ UrisOf(cut) \subseteq given[b]
  <2>1. Len(msg[b]) \in Nat /\ DOMAIN msg[b] = 1..Len(msg[b]) BY <1>2, MessageType
  <2> SUFFICES ASSUME NEW i \in 1..Len(msg[b]), msg[b][i] \in UrisOf(present),
                      msg[b][i] \notin UrisOf(cut)
               PROVE  msg[b][i] \in given[b]
    BY <2>1 DEF Elements
  <2>2. i < at[b] BY <1>1, <1>2, <2>1
  <2>3. /\ Parses(msg[b][i]) /\ Readable(TargetOf[msg[b][i]])
        /\ TargetOf[msg[b][i]] \notin cut
    BY DEF UrisOf, Readable
  <2> QED BY <1>6, <2>2, <2>3 DEF Done
<1> QED
  <2> DEFINE us == Elements(msg[b])
             gs == given[b]
  <2>1. us \in transit[b] BY <1>3
  <2>2. gs \in SUBSET (Uris \cap UrisOf({t \in Targets : disk[t] # "absent"}))
    BY <1>2, <1>7
  <2>3. gs \subseteq us /\ (us \cap UrisOf(present)) \ UrisOf(cut) \subseteq gs
    BY <1>8, <1>9
  <2>4. handed' = [handed EXCEPT ![b] = @ \cup gs] BY <1>1
  <2> HIDE DEF us, gs
  <2> QED BY <1>1, <1>4, <1>5, <2>1, <2>2, <2>3, <2>4
          DEF Delivery!Deliver, Delivery!disk, transit

LEMMA CrashLoses ==
    ASSUME IInv, [Next]_vars, NEW b \in Bridges, Crash(b)
    PROVE  Delivery!Lose(b)
<1>1. /\ pc[b] # "idle" /\ pc' = [pc EXCEPT ![b] = "idle"]
      /\ msg' = [msg EXCEPT ![b] = <<>>] /\ lost' = [lost EXCEPT ![b] = @ + 1]
      /\ UNCHANGED <<sent, handed>>
  BY DEF Crash, Idle
<1>2. /\ pc \in [Bridges -> {"idle", "next", "extract", "read", "create", "fill"}]
      /\ msg \in [Bridges -> Messages]
  BY DEF IInv, TypeOK
<1>3. transit[b] # {} BY <1>1 DEF transit
<1>4. transit' = [transit EXCEPT ![b] = {}] BY <1>1, <1>2 DEF transit
<1> QED BY <1>1, <1>3, <1>4, Extracts DEF Delivery!Lose, transit

(* Everything else a bridge does is between two messages of the contract.  *)
LEMMA WorkExtracts ==
    ASSUME IInv, [Next]_vars, NEW b \in Bridges, Forwarding(b), ~Forward(b)
    PROVE  Delivery!Next
<1>1. /\ pc[b] # "idle"
      /\ \E s \in {"next", "extract", "read", "create", "fill"} : pc' = [pc EXCEPT ![b] = s]
      /\ UNCHANGED <<msg, sent, handed, lost>>
  <2> USE DEF history
  <2>1. CASE LookUp(b) BY <2>1 DEF LookUp, Replace, Keep
  <2>2. CASE Extracted(b) BY <2>2 DEF Extracted, Replace
  <2>3. CASE NotExtracted(b) BY <2>3 DEF NotExtracted
  <2>4. CASE ReadFromZip(b) BY <2>4 DEF ReadFromZip, Keep
  <2>5. CASE Create(b) BY <2>5 DEF Create
  <2>6. CASE Fill(b) BY <2>6 DEF Fill, Replace
  <2>7. CASE WriteFails(b) BY <2>7 DEF WriteFails, Keep
  <2> QED BY <2>1, <2>2, <2>3, <2>4, <2>5, <2>6, <2>7 DEF Forwarding
<1>2. pc \in [Bridges -> {"idle", "next", "extract", "read", "create", "fill"}]
  BY DEF IInv, TypeOK
<1>3. \A c \in Bridges : (pc'[c] = "idle") = (pc[c] = "idle") BY <1>1, <1>2
<1>4. transit' = transit BY <1>1, <1>3 DEF transit, Elements
<1> QED BY <1>1, <1>4, Extracts DEF Delivery!Next, transit

LEMMA StepDelivers == ~Unix /\ IInv /\ [Next]_vars => [Delivery!Next]_(Delivery!vars)
<1> SUFFICES ASSUME ~Unix, IInv, [Next]_vars PROVE [Delivery!Next]_(Delivery!vars) OBVIOUS
<1>1. ASSUME NEW b \in Bridges, NEW us \in Messages, Route(b, us) PROVE Delivery!Next
  BY <1>1, RouteReceives DEF Delivery!Next
<1>2. ASSUME NEW b \in Bridges, Forward(b) PROVE Delivery!Next
  BY <1>2, ForwardDelivers DEF Delivery!Next
<1>3. ASSUME NEW b \in Bridges, Crash(b) PROVE Delivery!Next
  BY <1>3, CrashLoses DEF Delivery!Next
<1>4. ASSUME NEW b \in Bridges, Forwarding(b), ~Forward(b) PROVE Delivery!Next
  BY <1>4, WorkExtracts
<1>5. CASE UNCHANGED vars
  BY <1>5 DEF vars, history, Delivery!vars, Delivery!disk, UrisOf, Parses, Elements
<1> QED BY <1>1, <1>2, <1>3, <1>4, <1>5 DEF Next

(* No message is lost but with its bridge, a URI is only replaced by a     *)
(* file that exists, of an archive that holds the entry, and every one of  *)
(* those is replaced unless writing its file failed: for any bridges that  *)
(* share a directory, whatever fails and whoever is killed                 *)
(* (jars.rs:94-125, lsp.rs:106-136).                                       *)
THEOREM CacheDeliversSources == ASSUME ~Unix PROVE Spec => Delivery!SafeSpec
<1>1. Init => Delivery!Init
  <2> SUFFICES ASSUME Init PROVE Delivery!Init OBVIOUS
  <2>1. /\ present \subseteq Targets /\ disk = [t \in Targets |-> "absent"] /\ cut = {}
        /\ handed = [b \in Bridges |-> {}] /\ pc = [b \in Bridges |-> "idle"]
        /\ sent = [b \in Bridges |-> 0] /\ lost = [b \in Bridges |-> 0]
    BY DEF Init
  <2>2. UrisOf(present) \subseteq Uris /\ UrisOf(cut) = {} BY <2>1 DEF UrisOf
  <2>3. UrisOf({t \in Targets : disk[t] # "absent"}) = {} BY <2>1 DEF UrisOf
  <2> QED BY <2>1, <2>2, <2>3 DEF Delivery!Init
<1>2. IInv /\ [Next]_vars => [Delivery!Next]_(Delivery!vars) BY StepDelivers
<1> QED BY <1>1, <1>2, Invariance, PTL DEF Spec, Delivery!SafeSpec

-----------------------------------------------------------------------------
(* A consequence that also holds on Unix: what Zed has been told to open is *)
(* a file of an archive of this machine, and stays one, whoever writes,     *)
(* fails or is killed later (jars.rs:94-125, lsp.rs:121-135).               *)
LinksResolve ==
    \A b \in Bridges : \A u \in handed[b] :
        Parses(u) /\ TargetOf[u] \in present /\ disk[TargetOf[u]] # "absent"

LEMMA HandedGrows ==
    ASSUME IInv, [Next]_vars, NEW b \in Bridges
    PROVE  handed'[b] \subseteq handed[b] \cup given[b]
<1> USE DEF history
<1>1. handed \in [Bridges -> SUBSET Uris] BY DEF IInv, TypeOK
<1>2. ASSUME NEW c \in Bridges, Forward(c) PROVE handed'[b] \subseteq handed[b] \cup given[b]
  BY <1>1, <1>2 DEF Forward
<1>3. CASE UNCHANGED vars BY <1>3 DEF vars
<1>4. ASSUME NEW c \in Bridges, NEW us \in Messages, Route(c, us) PROVE handed' = handed
  BY <1>4 DEF Route
<1>5. ASSUME NEW c \in Bridges, Forwarding(c) \/ Crash(c), ~Forward(c)
      PROVE  handed' = handed
  BY <1>5 DEF Forwarding, LookUp, Extracted, NotExtracted, ReadFromZip, Create, Fill,
              WriteFails, Crash
<1> QED BY <1>2, <1>3, <1>4, <1>5 DEF Next

LEMMA StepLinks == IInv /\ LinksResolve /\ [Next]_vars => LinksResolve'
<1> SUFFICES ASSUME IInv, LinksResolve, [Next]_vars, NEW b \in Bridges, NEW u \in handed'[b]
             PROVE  Parses(u) /\ TargetOf[u] \in present' /\ disk'[TargetOf[u]] # "absent"
  BY DEF LinksResolve, Parses
<1>1. u \in handed[b] \cup given[b] BY HandedGrows
<1>2. u \in Uris /\ TargetOf[u] \in Targets
  <2>1. handed[b] \subseteq Uris /\ given[b] \subseteq Uris BY DEF IInv, TypeOK
  <2> QED BY <1>1, <2>1, CacheAssumption
<1>3. Parses(u) /\ disk[TargetOf[u]] # "absent"
  BY <1>1 DEF LinksResolve, IInv, KnownFiles, Known
<1>4. TargetOf[u] \in present BY <1>2, <1>3 DEF IInv, FilesOfArchives
<1> QED BY <1>2, <1>3, <1>4, FilesStay

(* For any bridges that share a directory, on any machine.                 *)
THEOREM LinksStayGood == Spec => []LinksResolve
<1>1. Init => LinksResolve BY DEF Init, LinksResolve
<1>2. IInv /\ LinksResolve /\ [Next]_vars => LinksResolve' BY StepLinks
<1> QED BY <1>1, <1>2, Invariance, PTL DEF Spec
=============================================================================
