----------------------------- MODULE ContainerRun -----------------------------
(***************************************************************************)
(* One execution of an operation that works in a Docker container:         *)
(* AbstractContainerProcessing.execute (bugfinder/base/processing/         *)
(* containers.py) with start_container and stop_container_by_name          *)
(* (bugfinder/utils/containers.py).                                        *)
(*                                                                         *)
(* The Docker daemon is not part of the repository.  It is modelled from   *)
(* the calls made to it: containers.run creates a container under a name   *)
(* that must be free, starts it, and, when not detached, waits for its     *)
(* end, removes it and raises if it failed; stop ends a running container  *)
(* and keeps it.                                                           *)
(***************************************************************************)
EXTENDS Naturals, FiniteSets

CONSTANTS
  Names,         \* container names: the class' name and a random suffix
  Kinds,         \* kinds of operations to consider, among AllKinds
  StartRetries,  \* start_retries of AbstractContainerProcessing
  MaxFaults      \* bound on what goes wrong outside the program

(* "server": the Neo4J operations, their container runs until it is stopped. *)
(* "task": RightFixer, detached, its container runs a command and ends.      *)
(* "batch": the Joern operations, not detached.                              *)
AllKinds == {"server", "task", "batch"}

ASSUME ContainerAssumption ==
  /\ Kinds \subseteq AllKinds
  /\ StartRetries \in Nat \ {0}
  /\ MaxFaults \in Nat

VARIABLES
  pc,         \* where execute is
  kind,       \* of the operation
  name,       \* self.container_name, with its suffix
  tries,      \* self.start_retries
  container,  \* self.container is not None
  daemon,     \* state of every container name
  error,      \* an exception is being raised
  faults      \* faults that can still happen

vars == <<pc, kind, name, tries, container, daemon, error, faults>>

States == {"absent", "created", "running", "finished", "failed", "killed"}
detach == kind # "batch"
Ended  == {"returned", "raised"}

Init == /\ pc = "configure"
        /\ kind \in Kinds
        /\ name \in Names
        /\ tries = StartRetries
        /\ container = FALSE
        /\ daemon = [n \in Names |-> "absent"]
        /\ error = FALSE
        /\ faults = MaxFaults

Raise == pc' = "finally" /\ error' = TRUE
Fault == faults > 0 /\ faults' = faults - 1

(* configure_container, the random suffix, configure_command.                *)
Configure == /\ pc = "configure"
             /\ \E n \in Names : daemon[n] = "absent" /\ name' = n
             /\ \/ pc' = "start" /\ UNCHANGED error
                \/ Raise
             /\ UNCHANGED <<kind, tries, container, daemon, faults>>

(* Mutants: an attempt too many; attempts that are not counted.              *)
OneTooMany == /\ tries' = tries - 1
              /\ IF tries = 0 THEN Raise ELSE pc' = "start" /\ UNCHANGED error
Uncounted  == /\ tries' = tries
              /\ IF tries = 1 THEN Raise ELSE pc' = "start" /\ UNCHANGED error

(* The handler of the loop: one attempt less, then an end or another try.    *)
AttemptFailed == /\ tries' = tries - 1
                 /\ IF tries = 1 THEN Raise ELSE pc' = "start" /\ UNCHANGED error

(* containers.run, where the daemon refuses: the name is in use, or there is *)
(* no such image, or no daemon.                                              *)
CreateRefused == /\ pc = "start"
                 /\ \/ daemon[name] # "absent" /\ UNCHANGED faults
                    \/ Fault
                 /\ AttemptFailed
                 /\ UNCHANGED <<kind, name, container, daemon>>

(* The container is created and cannot be started: a port drawn by           *)
(* assign_ports is taken.  Nothing removes it.                               *)
StartRefused == /\ pc = "start"
                /\ daemon[name] = "absent"
                /\ Fault
                /\ daemon' = [daemon EXCEPT ![name] = "created"]
                /\ AttemptFailed
                /\ UNCHANGED <<kind, name, container>>

(* It is started, and the answer of the daemon is lost.                      *)
AnswerLost == /\ pc = "start"
              /\ daemon[name] = "absent"
              /\ Fault
              /\ daemon' = [daemon EXCEPT ![name] = "running"]
              /\ AttemptFailed
              /\ UNCHANGED <<kind, name, container>>

(* Mutant: each attempt draws a suffix of its own.                           *)
StartedAnew == /\ pc = "start"
               /\ \E n \in Names :
                    /\ daemon[n] = "absent"
                    /\ daemon' = [daemon EXCEPT ![n] = "running"]
                    /\ name' = n
               /\ container' = detach
               /\ pc' = IF detach THEN "commands" ELSE "wait"
               /\ UNCHANGED <<kind, tries, error, faults>>

Started == /\ pc = "start"
           /\ daemon[name] = "absent"
           /\ daemon' = [daemon EXCEPT ![name] = "running"]
           /\ container' = detach
           /\ pc' = IF detach THEN "commands" ELSE "wait"
           /\ UNCHANGED <<kind, name, tries, error, faults>>

(* The entry point of a container ends by itself; a server only by a fault.  *)
EntryPointEnds(n) == /\ daemon[n] = "running"
                     /\ \/ /\ kind # "server"
                           /\ daemon' = [daemon EXCEPT ![n] = "finished"]
                           /\ UNCHANGED faults
                        \/ /\ Fault
                           /\ daemon' = [daemon EXCEPT ![n] = "failed"]
                     /\ UNCHANGED <<pc, kind, name, tries, container, error>>

(* Mutant: the container of a batch is not removed.                          *)
BatchEndedKept == /\ pc = "wait"
                  /\ daemon[name] \in {"finished", "failed"}
                  /\ \/ /\ daemon[name] = "finished"
                        /\ container' = TRUE
                        /\ pc' = "commands"
                        /\ UNCHANGED <<tries, error>>
                     \/ /\ daemon[name] = "failed"
                        /\ AttemptFailed
                        /\ UNCHANGED container
                  /\ UNCHANGED <<kind, name, daemon, faults>>

(* The end of a run that is not detached: the container is removed, and a    *)
(* non-zero exit status is one more failed start.                            *)
BatchEnded == /\ pc = "wait"
              /\ daemon[name] \in {"finished", "failed"}
              /\ daemon' = [daemon EXCEPT ![name] = "absent"]
              /\ \/ /\ daemon[name] = "finished"
                    /\ container' = TRUE
                    /\ pc' = "commands"
                    /\ UNCHANGED <<tries, error>>
                 \/ /\ daemon[name] = "failed"
                    /\ AttemptFailed
                    /\ UNCHANGED container
              /\ UNCHANGED <<kind, name, faults>>

(* send_commands of the subclass returns or raises.                          *)
SendCommands == /\ pc = "commands"
                /\ \/ pc' = "finally" /\ UNCHANGED error
                   \/ Raise
                /\ UNCHANGED <<kind, name, tries, container, daemon, faults>>

(* Mutant: the container is stopped at the end of the try clause.            *)
StopIfNoError == /\ pc = "finally"
                 /\ pc' = IF error THEN "raised" ELSE "returned"
                 /\ IF container /\ detach /\ ~error /\ daemon[name] = "running"
                    THEN daemon' = [daemon EXCEPT ![name] = "killed"]
                    ELSE UNCHANGED daemon
                 /\ UNCHANGED <<kind, name, tries, container, error, faults>>

(* The finally clause.  A command that is still running is given a moment to *)
(* end before it is killed.                                                  *)
Finally == /\ pc = "finally"
           /\ pc' = IF error THEN "raised" ELSE "returned"
           /\ IF container /\ detach /\ daemon[name] = "running"
              THEN \E s \in {"killed"} \cup (IF kind = "task" THEN {"finished"} ELSE {}) :
                     daemon' = [daemon EXCEPT ![name] = s]
              ELSE UNCHANGED daemon
           /\ UNCHANGED <<kind, name, tries, container, error, faults>>

Next == \/ Configure \/ CreateRefused \/ StartRefused \/ AnswerLost \/ Started
        \/ BatchEnded \/ SendCommands \/ Finally
        \/ \E n \in Names : EntryPointEnds(n)

(* The program goes on as long as it can; a batch command ends.              *)
Fairness == /\ WF_vars(Configure \/ CreateRefused \/ StartRefused \/ AnswerLost
                       \/ Started \/ BatchEnded \/ SendCommands \/ Finally)
            /\ \A n \in Names : WF_vars(pc = "wait" /\ EntryPointEnds(n))

Spec == Init /\ [][Next]_vars /\ Fairness
-------------------------------------------------------------------------------
TypeOK == /\ pc \in {"configure", "start", "wait", "commands", "finally"} \cup Ended
          /\ kind \in Kinds
          /\ name \in Names
          /\ tries \in 0..StartRetries
          /\ container \in BOOLEAN
          /\ daemon \in [Names -> States]
          /\ error \in BOOLEAN
          /\ faults \in 0..MaxFaults

(* However execute ends, by a return, a failed command or a failed start, a  *)
(* detached container it was handed is not left running.                     *)
StartedIsStopped == pc \in Ended /\ container /\ detach => daemon[name] # "running"

(* The work of the operation is never under way, or done, in two containers: *)
(* a retry after a start whose answer was lost does not repeat it, because   *)
(* the suffix is drawn once, before the loop.                                *)
WorkNotRepeated ==
  /\ Cardinality({n \in Names : daemon[n] \in {"running", "finished"}}) <= 1
  /\ pc = "commands" /\ ~detach => \A n \in Names : daemon[n] # "running"

(* An execution that returns was handed a container, leaves no container     *)
(* that never ran, and has a batch container removed.                        *)
ReturnIsClean == pc = "returned" =>
  /\ container
  /\ \A n \in Names : daemon[n] # "created"
  /\ ~detach => \A n \in Names : daemon[n] = "absent"

(* execute ends, whatever the daemon answers: the attempts are counted.      *)
Terminates == <>(pc \in Ended)

(* "Restart the container if an error occured" (containers.py:66): an error  *)
(* that happens once does not keep the container from being started.         *)
RestartsAfterError == (pc = "start" /\ tries < StartRetries /\ faults = 0) ~> container

(* "Processing to change the ownership of every file." (fix_rights.py:10):   *)
(* an execution that returns has changed it.                                 *)
OwnershipChanged == pc = "returned" => daemon[name] = "finished"
===============================================================================
