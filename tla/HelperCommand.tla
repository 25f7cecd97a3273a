----------------------------- MODULE HelperCommand -----------------------------
(***************************************************************************)
(* Running one helper program (crates/hwall-core/src/collect/util.rs): the *)
(* calling thread polls the child until it ends or its time is over, two   *)
(* reader threads empty its output pipes meanwhile, and the caller joins   *)
(* them.  A helper may leave a process behind that holds the pipes open.   *)
(*                                                                         *)
(* Output is counted in pieces; exit statuses and their contents are left  *)
(* out.                                                                    *)
(***************************************************************************)
EXTENDS Naturals, FiniteSets

CONSTANTS
    SearchPath,   \* directories of PATH, in order
    SystemDirs,   \* SYSTEM_COMMAND_DIRS
    Timeout,      \* polls before the child is killed
    PipeCapacity, \* pieces that a pipe holds
    MaxOutput,    \* MAX_HELPER_OUTPUT_BYTES
    MaxWritten    \* bound: pieces written to one pipe

ASSUME HelperAssumption ==
    /\ {Timeout, PipeCapacity, MaxOutput, MaxWritten} \subseteq Nat \ {0}

Streams == {"stdout", "stderr"}

VARIABLES
    helper,  \* the calling thread: where it is and what it will return
    child,   \* the child process
    pipes,   \* per stream: pieces written, and those of them not yet read
    readers, \* per stream: the thread that empties the pipe
    holder   \* a process the child left behind has the pipes open

helperVars == <<helper, child, pipes, readers, holder>>

HelperTypeOK ==
    /\ helper \in [at : {"start", "poll", "discard", "join", "returned"},
                   elevated : BOOLEAN, program : {"none"} \cup SearchPath \cup SystemDirs,
                   polls : 0 .. Timeout, joined : SUBSET Streams,
                   result : {"none", "output", "TimedOut", "InvalidData", "NotFound", "error"}]
    /\ child \in {"none", "running", "ended", "reaped"}
    /\ pipes \in [Streams -> [written : 0 .. MaxWritten, held : 0 .. PipeCapacity]]
    /\ readers \in [Streams -> [state : {"none", "reading", "ended"},
                                kept : 0 .. MaxOutput, exceeded : BOOLEAN]]
    /\ holder \in BOOLEAN

HelperInit ==
    /\ helper \in [at : {"start"}, elevated : BOOLEAN, program : {"none"}, polls : {0},
                   joined : {{}}, result : {"none"}]
    /\ child = "none"
    /\ pipes = [s \in Streams |-> [written |-> 0, held |-> 0]]
    /\ readers = [s \in Streams |-> [state |-> "none", kept |-> 0, exceeded |-> FALSE]]
    /\ holder = FALSE

Returns(result) == helper' = [helper EXCEPT !.at = "returned", !.result = result]

(* command_path looks into PATH and then the system directories;           *)
(* system_command_path, for what runs elevated, only into the latter.      *)
Searched(elevated) == IF elevated THEN SystemDirs ELSE SearchPath \cup SystemDirs

(* find_command, and the spawn; present are the directories that have the  *)
(* program (and pkexec, for an elevated run).  A program that is not found *)
(* is still given to the kernel by its name, unless it is to run elevated. *)
StartHelper(present) ==
    /\ helper.at = "start"
    /\ LET found == Searched(helper.elevated) \cap present
       IN IF found = {}
          THEN /\ Returns(IF helper.elevated THEN "NotFound" ELSE "error")
               /\ UNCHANGED <<child, readers>>
          ELSE \/ \E directory \in found :
                     /\ helper' = [helper EXCEPT !.at = "poll", !.program = directory]
                     /\ child' = "running"
                     /\ readers' = [s \in Streams |-> [readers[s] EXCEPT !.state = "reading"]]
               \/ Returns("error") /\ UNCHANGED <<child, readers>>
    /\ UNCHANGED <<pipes, holder>>

-----------------------------------------------------------------------------
(* The child and what it leaves behind *)

Writes(s) ==
    /\ child = "running" \/ holder
    /\ pipes[s].written < MaxWritten
    /\ pipes[s].held < PipeCapacity
    /\ pipes' = [pipes EXCEPT ![s].written = @ + 1, ![s].held = @ + 1]
    /\ UNCHANGED <<helper, child, readers, holder>>

LeavesHolder ==
    /\ child = "running" /\ ~holder
    /\ holder' = TRUE
    /\ UNCHANGED <<helper, child, pipes, readers>>

HolderEnds ==
    /\ holder
    /\ holder' = FALSE
    /\ UNCHANGED <<helper, child, pipes, readers>>

ChildEnds ==
    /\ child = "running"
    /\ child' = "ended"
    /\ UNCHANGED <<helper, pipes, readers, holder>>

-----------------------------------------------------------------------------
(* spawn_output_reader: read until nobody can write any more, keep as much *)
(* as the limit allows and throw the rest away.                            *)

(* A reader goes on reading whatever it has kept so far.                   *)
Takes(s) == TRUE

Reads(s) ==
    /\ readers[s].state = "reading"
    /\ pipes[s].held > 0
    /\ Takes(s)
    /\ LET room == MaxOutput - readers[s].kept
       IN readers' = [readers EXCEPT
              ![s].kept = @ + (IF pipes[s].held <= room THEN pipes[s].held ELSE room),
              ![s].exceeded = @ \/ pipes[s].held > room]
    /\ pipes' = [pipes EXCEPT ![s].held = 0]
    /\ UNCHANGED <<helper, child, holder>>

ReaderEnds(s) ==
    /\ readers[s].state = "reading"
    /\ pipes[s].held = 0
    /\ child # "running" /\ ~holder
    /\ readers' = [readers EXCEPT ![s].state = "ended"]
    /\ UNCHANGED <<helper, child, pipes, holder>>

-----------------------------------------------------------------------------
(* The calling thread *)

(* One turn of the loop: the child has ended, or its time is not yet over. *)
PollEnded ==
    /\ helper.at = "poll" /\ child = "ended"
    /\ child' = "reaped"
    /\ helper' = [helper EXCEPT !.at = "join"]
    /\ UNCHANGED <<pipes, readers, holder>>

PollAgain ==
    /\ helper.at = "poll" /\ child = "running"
    /\ ~helper.elevated
    /\ helper.polls < Timeout
    /\ helper' = [helper EXCEPT !.polls = @ + 1]
    /\ UNCHANGED <<child, pipes, readers, holder>>

(* The time is over, or the child cannot be waited for: it is killed and   *)
(* waited for all the same.                                                *)
GiveUp(result) ==
    /\ helper.at = "poll" /\ ~helper.elevated
    /\ result = "TimedOut" => child = "running" /\ helper.polls = Timeout
    /\ child' = "reaped"
    /\ helper' = [helper EXCEPT !.at = "discard", !.result = result]
    /\ UNCHANGED <<pipes, readers, holder>>

(* A mutant: the output is taken as it is.                                 *)
MayJoinAtOnce(s) == s \notin helper.joined

(* take_output_reader waits for the thread; stdout comes first.            *)
MayJoin(s) ==
    /\ s \notin helper.joined
    /\ s = "stderr" => "stdout" \in helper.joined
    /\ readers[s].state = "ended"

JoinDiscarding(s) ==
    /\ helper.at = "discard"
    /\ MayJoin(s)
    /\ helper' = [helper EXCEPT !.joined = @ \cup {s},
                                !.at = IF s = "stderr" THEN "returned" ELSE @]
    /\ UNCHANGED <<child, pipes, readers, holder>>

JoinOutput(s) ==
    /\ helper.at = "join"
    /\ MayJoin(s)
    /\ IF readers[s].exceeded /\ ~helper.elevated
       THEN Returns("InvalidData")
       ELSE helper' = [helper EXCEPT !.joined = @ \cup {s},
                                     !.at = IF s = "stderr" THEN "returned" ELSE @,
                                     !.result = IF s = "stderr" THEN "output" ELSE @]
    /\ UNCHANGED <<child, pipes, readers, holder>>

HelperCaller ==
    \/ \E present \in SUBSET (SearchPath \cup SystemDirs) : StartHelper(present)
    \/ PollEnded \/ PollAgain \/ GiveUp("TimedOut")
    \/ \E s \in Streams : JoinDiscarding(s) \/ JoinOutput(s)

Reader(s) == Reads(s) \/ ReaderEnds(s)

HelperNext ==
    \/ HelperCaller
    \/ GiveUp("error")
    \/ \E s \in Streams : Writes(s) \/ Reader(s)
    \/ LeavesHolder \/ HolderEnds \/ ChildEnds

(* The threads of HWall go on; the helper and what it leaves behind need   *)
(* do nothing, not even end.                                               *)
HelperFairness ==
    /\ WF_helperVars(HelperCaller)
    /\ \A s \in Streams : WF_helperVars(Reader(s))

HelperSpec == HelperInit /\ [][HelperNext]_helperVars /\ HelperFairness

-----------------------------------------------------------------------------
(* Properties *)

(* When run_command_configured returns, the child has been waited for (no  *)
(* zombie stays), and output it returns is all that was written; a helper  *)
(* that runs with the rights of the administrator is one of the system.    *)
HelperOutcome ==
    /\ helper.at = "returned" => child \in {"none", "reaped"}
    /\ helper.result = "output" =>
          \A s \in Streams : /\ pipes[s].held = 0
                             /\ helper.elevated \/ readers[s].kept = pipes[s].written
    /\ helper.elevated => helper.program \in SystemDirs \cup {"none"}

(* A full pipe is always emptied again, so that a helper cannot hang       *)
(* because HWall does not read; and a helper with a time limit returns,    *)
(* also when it hangs itself, unless a process it left behind keeps the    *)
(* pipes open.                                                             *)
HelperReturns ==
    /\ \A s \in Streams : (pipes[s].held = PipeCapacity) ~> (pipes[s].held < PipeCapacity)
    /\ <>[]~holder => ((helper.at # "start" /\ ~helper.elevated) ~> (helper.at = "returned"))
=============================================================================
