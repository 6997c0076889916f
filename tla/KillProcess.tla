----------------------------- MODULE KillProcess -----------------------------
(***************************************************************************)
(* KillProcess/main.c and src_so/process.c: a scan of /proc for the        *)
(* processes that run one file, which are then killed, and the world the   *)
(* scan runs in: processes fork, execute another file, exit and are reaped *)
(* while it goes on (simulationvirus/ has one program for each of these).  *)
(*                                                                         *)
(* readdir hands out entries of a buffer that one getdents call has filled *)
(* earlier. A process is what ls -l shows of /proc/<pid>/exe when it runs. *)
(* A pid is not used twice during one run of the killer: the kernel hands  *)
(* pids out in turn, and a run takes far fewer than there are.             *)
(***************************************************************************)
EXTENDS Integers, Sequences, FiniteSets, FiniteSetsExt, MyVector

CONSTANTS MaxPid,     \* bound: pids are 1..MaxPid
          Batch,      \* entries in the buffer of readdir, about 1365
          MaxLeaks,   \* pipes the killer can lose before popen fails, 1019
          MaxEvents,  \* bound: what the world does while the killer runs
          InitialStates  \* what a pid can be when the killer starts

ASSUME KillProcessAssumption ==
  /\ {MaxPid, MaxLeaks, MaxEvents} \subseteq Nat
  /\ Batch \in Nat \ {0}
  /\ InitialStates \subseteq {"target", "alike", "other", "hidden", "zombie",
                             "unborn"}

VARIABLES
  \* the world
  proc,        \* what each pid is
  executable,  \* whether the file at process_path may be executed
  events,      \* how much has happened
  \* the killer
  arg,         \* argv: the kind of path, whether there is a file and its md5
  pc,          \* where it is
  cause,       \* why it crashed
  pos,         \* where the next getdents goes on
  batch,       \* entries readdir has not returned yet
  cur,         \* d_name, while grep looks at it
  buf,         \* what ls printed of cur
  leaks,       \* streams that dealdeadpid has not closed
  count,       \* processes found
  vect,        \* those to be killed
  killed,      \* how many of them killappointpid has dealt with
  \* history
  behind       \* pids that began to run the file after they were looked at

world  == <<proc, executable, events, behind>>
killer == <<arg, pc, cause, pos, batch, cur, buf, leaks, count, vect, killed>>
vars   == <<world, killer>>

Pid == 1..MaxPid

\* "target" runs the file at process_path; "alike" one whose path begins with
\* process_path; "hidden" has no exe to read: a kernel thread. A "leaked" pid
\* is the zombie of a grep that the killer has started and not waited for.
Programs == {"target", "alike", "other"}
States   == Programs \cup {"unborn", "hidden", "zombie", "leaked", "gone"}

Dead   == {"zombie", "leaked"}
Exists(p) == proc[p] \notin {"unborn", "gone"}
Unborn == {p \in Pid : proc[p] = "unborn"}

Paths == {"absolute", "relative", "bare", "missing"}

\* The md5 is looked at for an absolute path only.
Args == {a \in [path : Paths, exists : BOOLEAN, md5 : BOOLEAN] :
           a.md5 => a.path = "absolute" /\ a.exists}

Final == {"refused", "returned", "failed", "crashed"}

Init ==
  /\ proc \in [Pid -> InitialStates]
  /\ arg \in Args
  /\ executable = TRUE /\ events = 0 /\ behind = {}
  /\ pc = "main" /\ cause = "none"
  /\ pos = 1 /\ batch = {} /\ cur = 0 /\ buf = "none"
  /\ leaks = 0 /\ count = 0 /\ vect = init_vector /\ killed = 0
-----------------------------------------------------------------------------
(* The world, while the killer scans and kills; Init is what came before *)

\* The scan has yet to look at p.
Ahead(p) == p >= pos \/ p \in batch

Happens ==
  /\ pc \notin Final \cup {"main"}
  /\ events < MaxEvents
  /\ events' = events + 1
  /\ UNCHANGED killer

Becomes(p, state) ==
  /\ proc' = [proc EXCEPT ![p] = state]
  /\ behind' = IF state = "target" /\ ~Ahead(p) THEN behind \cup {p}
               ELSE behind

\* A child runs the file of its parent.
Fork(p, child) ==
  /\ Happens
  /\ proc[p] \in Programs /\ proc[child] = "unborn"
  /\ Becomes(child, proc[p])
  /\ UNCHANGED executable

Exec(p, program) ==
  /\ Happens
  /\ proc[p] \in Programs \ {program}
  /\ program = "target" => executable
  /\ Becomes(p, program)
  /\ UNCHANGED executable

Exit(p) ==
  /\ Happens
  /\ proc[p] \in Programs \cup {"hidden"}
  /\ Becomes(p, "zombie")
  /\ UNCHANGED executable

Reap(p) ==
  /\ Happens
  /\ proc[p] = "zombie"
  /\ Becomes(p, "gone")
  /\ UNCHANGED executable

World ==
  \E p \in Pid :
    \/ \E child \in Pid : Fork(p, child)
    \/ \E program \in Programs : Exec(p, program)
    \/ Exit(p)
    \/ Reap(p)
-----------------------------------------------------------------------------
(* The killer *)

\* Operators named Faulty... are plausible bugs of the operator that follows
\* them. No specification uses them.

Crash(why) == pc' = "crashed" /\ cause' = why

\* Any slash will do, so a relative path with one passes.
isabsolutepath(path) == path \in {"absolute", "relative"}

\* The file could be opened.
isfileexist(a) == a.exists

Main ==
  /\ pc = "main"
  /\ pc' = IF isabsolutepath(arg.path) /\ isfileexist(arg)
           THEN "getdents" ELSE "refused"
  /\ UNCHANGED <<world, arg, cause, pos, batch, cur, buf, leaks, count, vect,
                 killed>>

\* One step of the system call that fills the buffer: the next process is
\* entered, or does not fit, or there is none. Processes come and go between
\* two steps.
Getdents ==
  LET ahead == {p \in Pid : Exists(p) /\ p >= pos}
      full  == Cardinality(batch) = Batch
  IN
  /\ pc = "getdents"
  /\ \/ /\ ahead # {} /\ ~full
        /\ batch' = batch \cup {Min(ahead)}
        /\ pos' = Min(ahead) + 1
        /\ UNCHANGED pc
     \/ /\ ahead # {} /\ full
        /\ pc' = "scan"
        /\ UNCHANGED <<pos, batch>>
     \/ /\ ahead = {}
        /\ pos' = MaxPid + 1
        /\ pc' = IF batch = {} THEN "list" ELSE "scan"
        /\ UNCHANGED batch
  /\ UNCHANGED <<world, arg, cause, cur, buf, leaks, count, vect, killed>>

\* Once the last entry has been handed out, readdir calls getdents.
NextEntry == IF batch' = {} THEN "getdents" ELSE "scan"

\* strncmp compares as many characters as process_path has.
Matches(program) == arg.path = "absolute" /\ program \in {"target", "alike"}

\* What get_md5 finds is compared with process_md5. It reads the file at
\* process_path, whichever file the process runs.
get_md5(p) == arg.md5

\* The process is counted only when the md5 does not agree.
FaultyNote(p) ==
  /\ count' = IF get_md5(p) THEN count ELSE count + 1
  /\ vect' = IF get_md5(p) THEN push_vector(vect, p) ELSE vect
  /\ pc' = NextEntry /\ UNCHANGED cause

Note(p) ==
  /\ count' = count + 1
  /\ vect' = IF get_md5(p) THEN push_vector(vect, p) ELSE vect
  /\ \/ pc' = NextEntry /\ UNCHANGED cause
     \/ Overruns(vect', getcount_vector(vect')) /\ Crash("overrun")

\* A line without '>': a process that is a zombie, has no file, or has gone.
isdeadpid(p) == proc[p] \notin Programs

\* readdir, ls of one entry, and what is done with a line that has a '>'.
\* popen fails when no descriptors are left, and nothing is killed then.
Look ==
  LET p == Min(batch) IN
  /\ pc = "scan"
  /\ batch' = batch \ {p}
  /\ \/ /\ leaks >= MaxLeaks
        /\ pc' = "failed"
        /\ UNCHANGED <<cause, cur, buf, count, vect>>
     \/ /\ leaks < MaxLeaks
        /\ \/ /\ ~isdeadpid(p) /\ Matches(proc[p])
              /\ Note(p)
              /\ UNCHANGED <<cur, buf>>
           \/ /\ ~isdeadpid(p) /\ ~Matches(proc[p])
              /\ pc' = NextEntry
              /\ UNCHANGED <<cause, cur, buf, count, vect>>
           \/ /\ isdeadpid(p)
              /\ pc' = "grep"
              /\ cur' = p
              /\ buf' = IF Exists(p) THEN "no exe" ELSE ""
              /\ UNCHANGED <<cause, count, vect>>
  /\ UNCHANGED <<world, arg, pos, leaks, killed>>

\* The stream of ls is not closed either.
FaultyLeak ==
  /\ leaks' = leaks + 2
  /\ UNCHANGED proc

\* dealdeadpid never closes its stream: a descriptor is lost, and the child
\* that ran grep becomes a zombie of the killer. Beyond MaxPid it is not seen.
Leak ==
  /\ leaks' = leaks + 1
  /\ \/ \E p \in Unborn : proc' = [proc EXCEPT ![p] = "leaked"]
     \/ Unborn = {} /\ UNCHANGED proc

\* A process without a file ends the scan (break for continue).
FaultyGrep ==
  /\ pc = "grep"
  /\ Leak
  /\ pc' = "list" /\ pos' = MaxPid + 1 /\ batch' = {}
  /\ cur' = 0 /\ buf' = "none"
  /\ UNCHANGED <<executable, events, behind, arg, cause, count, vect, killed>>

\* dealdeadpid returns the parent of a zombie, and NULL for others.
HasParent(p) == proc[p] \in Dead

\* parse_fields returns NULL + 1 for a line without a space.
NoField(line) == line = ""

\* After isdeadpid: dealdeadpid, then ischeckpid with a parent that is always
\* NULL (the result has gone into another variable), then parse_fields.
Grep ==
  /\ pc = "grep"
  /\ Leak
  /\ UNCHANGED batch
  /\ IF HasParent(cur) /\ ComparesNull(vect) THEN Crash("zombie")
     ELSE IF NoField(buf) THEN Crash("vanished")
     ELSE pc' = NextEntry /\ UNCHANGED cause
  /\ cur' = 0 /\ buf' = "none"
  /\ UNCHANGED <<executable, events, behind, arg, pos, count, vect, killed>>

\* The pids are printed, count of them whether or not they are in vect.
PrintOverruns == Overruns(vect, count)

\* Then killappointpid takes the right to execute from the file.
Disarm ==
  /\ pc = "list"
  /\ \/ /\ executable' = FALSE
        /\ pc' = "kill"
        /\ UNCHANGED cause
     \/ /\ PrintOverruns
        /\ Crash("overrun")
        /\ UNCHANGED executable
  /\ UNCHANGED <<proc, events, behind, arg, pos, batch, cur, buf, leaks,
                 count, vect, killed>>

\* The index of the loop is not advanced.
FaultyKill ==
  /\ pc = "kill"
  /\ killed < getcount_vector(vect)
  /\ proc' = [proc EXCEPT ![pop_vector(vect, killed)] = "zombie"]
  /\ UNCHANGED <<executable, events, behind, killer>>

\* The one that is killed stays a zombie until its parent waits for it.
Kill ==
  /\ pc = "kill"
  /\ killed < getcount_vector(vect)
  /\ LET p == pop_vector(vect, killed)
     IN  proc' = IF proc[p] \in Programs
                 THEN [proc EXCEPT ![p] = "zombie"] ELSE proc
  /\ killed' = killed + 1
  /\ UNCHANGED <<executable, events, behind, arg, pc, cause, pos, batch, cur,
                 buf, leaks, count, vect>>

Destroy ==
  /\ pc = "kill"
  /\ killed = getcount_vector(vect)
  /\ \/ pc' = "returned" /\ UNCHANGED cause
     \/ DestroyOverruns(vect) /\ Crash("overrun")
  /\ UNCHANGED <<world, arg, pos, batch, cur, buf, leaks, count, vect, killed>>

Killer == Main \/ Getdents \/ Look \/ Grep \/ Disarm \/ Kill \/ Destroy

Next == World \/ Killer

Spec == Init /\ [][Next]_vars

\* The killer's thread runs; the world need not do anything.
FairSpec == Spec /\ WF_vars(Killer)
-----------------------------------------------------------------------------
(* Properties *)

\* Every variable has values of its kind.
TypeOK ==
  /\ proc \in [Pid -> States] /\ executable \in BOOLEAN
  /\ events \in 0..MaxEvents /\ behind \subseteq Pid
  /\ arg \in Args
  /\ pc \in {"main", "getdents", "scan", "grep", "list", "kill"} \cup Final
  /\ cause \in {"none", "zombie", "vanished", "overrun"}
  /\ (pc = "crashed") = (cause # "none")
  /\ pos \in 1..(MaxPid + 1) /\ batch \subseteq Pid
  /\ pc = "scan" => batch # {}
  /\ cur \in Pid \cup {0} /\ buf \in {"none", "no exe", ""}
  /\ leaks \in 0..MaxLeaks
  /\ count \in 0..MaxPid /\ killed \in 0..getcount_vector(vect)
  /\ vect \in [nums : Seq(Pid), capacity : Nat, slots : Nat]
  /\ getcount_vector(vect) <= count

\* A process that runs the file has been found and is yet to be killed, is yet
\* to be looked at, or began to run the file after it was looked at. So when
\* the killer is done the only ones left are of the last kind: none that ran
\* when the scan began survives, however many come and go meanwhile and
\* however the listing is cut into batches.
Found == {vect.nums[k] : k \in (killed + 1)..getcount_vector(vect)}

NothingForgotten ==
  arg.path = "absolute" /\ arg.md5 /\ pc \notin Final \ {"returned"} =>
    \A p \in Pid :
      proc[p] = "target" => Ahead(p) \/ p \in Found \/ p \in behind

\* The scan gives up, and nothing is killed, only where as many pids as popen
\* can lose streams have no file to read: the streams that are lost are never
\* more than those, the zombies the scan has made itself among them.
Fileless == {p \in Pid : proc[p] \notin Programs \cup {"unborn"}}

FailsOnlyCrowded == pc = "failed" => Cardinality(Fileless) >= MaxLeaks

\* The vector is used out of its bounds only after more processes were found
\* than its doubling capacity has slots for, or, when the md5 does not agree
\* and the vector stays empty, more than it has at first.
HuntInBounds ==
  cause = "overrun" =>
    count > (IF arg.md5 THEN SafeCount ELSE InitialCapacity)

\* The killer comes to an end, although the scan meets the zombies that it
\* leaves behind, and processes go on starting.
KillerReturns == <>(pc \in Final)
=============================================================================
