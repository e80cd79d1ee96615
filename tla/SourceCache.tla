----------------------------- MODULE SourceCache -----------------------------
(***************************************************************************)
(* Library sources for Zed (bridge/src/jars.rs, lsp.rs:104-139). A message *)
(* of the server may name sources inside archives, by URIs Zed cannot      *)
(* open. Before it forwards the message the main thread of the bridge      *)
(* extracts each of them to <workdir>/sources/... and puts the URI of that *)
(* file in its place; a source it cannot extract keeps its URI.            *)
(*                                                                         *)
(* Every worktree has a bridge of its own, with a memory of its own, and   *)
(* all of them extract to the same directory. A target is a path in it.    *)
(***************************************************************************)
EXTENDS Integers, Sequences

CONSTANTS
    Bridges,      \* bridges with the same workdir
    Uris,         \* virtual source URIs
    SchemeOf,     \* their scheme: "jar", "file" or "jrt"
    TargetOf,     \* where an archive entry is extracted to
    Targets,
    Unix,         \* absolute paths begin with a slash
    MaxMessages   \* bound: messages the bridges receive, in all

ASSUME CacheAssumption ==
    /\ SchemeOf \in [Uris -> {"jar", "file", "jrt"}]
    /\ TargetOf \in [Uris -> Targets]
    /\ Unix \in BOOLEAN
    /\ MaxMessages \in Nat

VARIABLES
    present,   \* targets whose archive is on disk and holds the entry
    disk,      \* per target: "absent", "partial" or "full"
    mem,       \* per bridge: Cache.mem, the URIs it has a file for
    pc,        \* per bridge: step of forward_to_zed
    msg, at,   \* per bridge: the URIs in the message, and which is next
    given,     \* per bridge: the URIs of the message replaced so far
    received,  \* messages from the server, of all bridges
    sent,      \* per bridge: messages to Zed
    handed,    \* per bridge: URIs whose files Zed has been told of
    cut, lost  \* history: targets of which a write failed or was killed, and
               \* per bridge the messages lost with it

history == <<cut, lost>>
vars == <<present, disk, mem, pc, msg, at, given, received, sent, handed, history>>

(* collect_virtual_uris yields each URI once, in the order of the message. *)
Messages == {us \in UNION {[1..k -> Uris] : k \in 0..2} :
                \A i, j \in DOMAIN us : us[i] = us[j] => i = j}

Current(b) == msg[b][at[b]]
Target(b)  == TargetOf[Current(b)]
Elements(s) == {s[i] : i \in DOMAIN s}

Init ==
    /\ present \in SUBSET Targets
    /\ disk = [t \in Targets |-> "absent"]
    /\ mem = [b \in Bridges |-> {}]
    /\ pc = [b \in Bridges |-> "idle"]
    /\ msg = [b \in Bridges |-> <<>>]
    /\ at = [b \in Bridges |-> 1]
    /\ given = [b \in Bridges |-> {}]
    /\ received = 0
    /\ sent = [b \in Bridges |-> 0]
    /\ handed = [b \in Bridges |-> {}]
    /\ cut = {} /\ lost = [b \in Bridges |-> 0]

-----------------------------------------------------------------------------
(* parse_jar_uri. A jrt: URI names no archive.                             *)
Parses(u) == SchemeOf[u] # "jrt"

(* It strips "jar:///" or "file:///", and with it the slash a Unix path    *)
(* begins with: what is left is looked up below the working directory,     *)
(* where no archive is. Mutant: an archive that cannot be read is empty.   *)
AlwaysReadable(t) == TRUE
Readable(t)       == t \in present /\ ~Unix

(* read_to_end. Mutant: what one read returns.                             *)
OneRead(t) == "partial"
Content(t) == IF t \in present THEN "full" ELSE "partial"

(* Cache.remember. Mutant: keyed by the file.                              *)
KeyedByFile(b) == mem[b] \cup {Target(b)}
Remembered(b)  == mem[b] \cup {Current(b)}

(* rewrite_local returned a file URI: replace it, go on with the next.     *)
Replace(b) ==
    /\ given' = [given EXCEPT ![b] = @ \cup {Current(b)}]
    /\ at' = [at EXCEPT ![b] = @ + 1]
    /\ pc' = [pc EXCEPT ![b] = "next"]

(* rewrite_local returned None: the URI stays. Mutants: the rest of the    *)
(* message is not looked at; the message is dropped.                       *)
KeepAll(b) ==
    /\ at' = [at EXCEPT ![b] = Len(msg[b]) + 1]
    /\ pc' = [pc EXCEPT ![b] = "next"]
    /\ UNCHANGED given
DropMessage(b) ==
    /\ pc' = [pc EXCEPT ![b] = "idle"]
    /\ UNCHANGED <<at, given>>
Keep(b) ==
    /\ at' = [at EXCEPT ![b] = @ + 1]
    /\ pc' = [pc EXCEPT ![b] = "next"]
    /\ UNCHANGED given

-----------------------------------------------------------------------------
(* forward_to_zed                                                          *)
Route(b, us) ==
    /\ pc[b] = "idle"
    /\ received < MaxMessages
    /\ pc' = [pc EXCEPT ![b] = "next"]
    /\ msg' = [msg EXCEPT ![b] = us]
    /\ at' = [at EXCEPT ![b] = 1]
    /\ given' = [given EXCEPT ![b] = {}]
    /\ received' = received + 1
    /\ UNCHANGED <<present, disk, mem, sent, handed, history>>

(* rewrite_local: a hit in the memory, or no archive in the URI.           *)
LookUp(b) ==
    /\ pc[b] = "next" /\ at[b] <= Len(msg[b])
    /\ \/ /\ Current(b) \in mem[b]
          /\ Replace(b)
       \/ /\ Current(b) \notin mem[b] /\ ~Parses(Current(b))
          /\ Keep(b)
       \/ /\ Current(b) \notin mem[b] /\ Parses(Current(b))
          /\ pc' = [pc EXCEPT ![b] = "extract"]
          /\ UNCHANGED <<at, given>>
    /\ UNCHANGED <<present, disk, mem, msg, received, sent, handed, history>>

(* extract: target.is_file() is all it asks of a file that is there.       *)
Extracted(b) ==
    /\ pc[b] = "extract" /\ disk[Target(b)] # "absent"
    /\ mem' = [mem EXCEPT ![b] = Remembered(b)]
    /\ Replace(b)
    /\ UNCHANGED <<present, disk, msg, received, sent, handed, history>>

NotExtracted(b) ==
    /\ pc[b] = "extract" /\ disk[Target(b)] = "absent"
    /\ pc' = [pc EXCEPT ![b] = "read"]
    /\ UNCHANGED <<present, disk, mem, msg, at, given, received, sent, handed, history>>

ReadFromZip(b) ==
    /\ pc[b] = "read"
    /\ \/ /\ Readable(Target(b))
          /\ pc' = [pc EXCEPT ![b] = "create"]
          /\ UNCHANGED <<at, given>>
       \/ /\ ~Readable(Target(b))
          /\ Keep(b)
    /\ UNCHANGED <<present, disk, mem, msg, received, sent, handed, history>>

(* fs::write creates or truncates the file ...                             *)
Create(b) ==
    /\ pc[b] = "create"
    /\ disk' = [disk EXCEPT ![Target(b)] = "partial"]
    /\ pc' = [pc EXCEPT ![b] = "fill"]
    /\ UNCHANGED <<present, mem, msg, at, given, received, sent, handed, history>>

(* ... and fills it, or fails and leaves it.                               *)
Fill(b) ==
    /\ pc[b] = "fill"
    /\ disk' = [disk EXCEPT ![Target(b)] = Content(Target(b))]
    /\ mem' = [mem EXCEPT ![b] = Remembered(b)]
    /\ Replace(b)
    /\ UNCHANGED <<present, msg, received, sent, handed, history>>

WriteFails(b) ==
    /\ pc[b] \in {"create", "fill"}
    /\ Keep(b)
    /\ cut' = cut \cup {Target(b)}
    /\ UNCHANGED <<present, disk, mem, msg, received, sent, handed, lost>>

(* The message is done with.                                               *)
Idle(b) ==
    /\ pc' = [pc EXCEPT ![b] = "idle"]
    /\ msg' = [msg EXCEPT ![b] = <<>>]
    /\ at' = [at EXCEPT ![b] = 1]
    /\ given' = [given EXCEPT ![b] = {}]

(* write_stdout                                                            *)
Forward(b) ==
    /\ pc[b] = "next" /\ at[b] > Len(msg[b])
    /\ Idle(b)
    /\ sent' = [sent EXCEPT ![b] = @ + 1]
    /\ handed' = [handed EXCEPT ![b] = @ \cup given[b]]
    /\ UNCHANGED <<present, disk, mem, received, history>>

(* The bridge is killed; the next one begins with an empty memory.         *)
Crash(b) ==
    /\ pc[b] # "idle"
    /\ Idle(b)
    /\ mem' = [mem EXCEPT ![b] = {}]
    /\ lost' = [lost EXCEPT ![b] = @ + 1]
    /\ cut' = IF pc[b] = "fill" THEN cut \cup {Target(b)} ELSE cut
    /\ UNCHANGED <<present, disk, received, sent, handed>>

-----------------------------------------------------------------------------
Forwarding(b) == \/ LookUp(b) \/ Extracted(b) \/ NotExtracted(b) \/ ReadFromZip(b)
                 \/ Create(b) \/ Fill(b) \/ WriteFails(b) \/ Forward(b)

Next == \E b \in Bridges :
            \/ \E us \in Messages : Route(b, us)
            \/ Forwarding(b)
            \/ Crash(b)

Spec == Init /\ [][Next]_vars
(* The main threads run.                                                   *)
FairSpec == Spec /\ \A b \in Bridges : WF_vars(Forwarding(b))

-----------------------------------------------------------------------------
(* Type invariant.                                                         *)
TypeOK ==
    /\ present \subseteq Targets
    /\ disk \in [Targets -> {"absent", "partial", "full"}]
    /\ mem \in [Bridges -> SUBSET Uris] /\ given \in [Bridges -> SUBSET Uris]
    /\ handed \in [Bridges -> SUBSET Uris]
    /\ pc \in [Bridges -> {"idle", "next", "extract", "read", "create", "fill"}]
    /\ msg \in [Bridges -> Messages] /\ at \in [Bridges -> 1..3]
    /\ cut \subseteq Targets /\ received \in 0..MaxMessages
    /\ sent \in [Bridges -> Nat] /\ lost \in [Bridges -> Nat]

-----------------------------------------------------------------------------
(* Safety.                                                                 *)

(* Several bridges write the same file over each other, but a file is only *)
(* torn while one of them is at it, unless a write to it failed or was     *)
(* killed (jars.rs:116-123).                                               *)
TornIsBeingWritten ==
    \A t \in Targets : disk[t] = "partial" =>
        t \in cut \/ \E b \in Bridges : pc[b] = "fill" /\ Target(b) = t

(* A message leaves with a file for every source in an archive of this     *)
(* machine, whatever else is in it (README.md:35-38, lsp.rs:121-135),      *)
(* unless a write to the file failed. A jrt: URI names no archive.         *)
SourcesOpen ==
    \A b \in Bridges : (pc[b] = "next" /\ at[b] > Len(msg[b])) =>
        \A u \in Elements(msg[b]) :
            Parses(u) /\ TargetOf[u] \in present => u \in given[b] \/ TargetOf[u] \in cut

-----------------------------------------------------------------------------
(* Refinement.                                                             *)

UrisOf(ts) == {u \in Uris : Parses(u) /\ TargetOf[u] \in ts}

Delivery == INSTANCE SourceDelivery WITH
    archived <- UrisOf(present),
    files    <- UrisOf({t \in Targets : disk[t] # "absent"}),
    failed   <- UrisOf(cut),
    transit  <- [b \in Bridges |-> IF pc[b] = "idle" THEN {} ELSE {Elements(msg[b])}],
    told     <- handed

(* Whatever fails and whoever is killed, no message is lost but with its   *)
(* bridge, a URI is only replaced by a file that exists, of an archive     *)
(* that holds the entry, and every one of those is replaced unless a write *)
(* of its file failed (jars.rs:94-125, lsp.rs:106-136). Where the slash of *)
(* a Unix path is not lost.                                                *)
DeliversSources == Delivery!Spec
=============================================================================
