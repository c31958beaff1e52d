---------------------------- MODULE CommandClose ----------------------------
(***************************************************************************)
(* src/examples/command-close.rs: a program opens three files, makes them  *)
(* inheritable and starts a command, which is to inherit the first and the *)
(* third and, apart from the standard streams, nothing else.  The call     *)
(* into the crate is made by the child, between fork() and exec().         *)
(*                                                                         *)
(* Until the fork the table is the parent's, from then on the child's.     *)
(* The child has one thread.                                               *)
(***************************************************************************)
EXTENDS CloseFds

CONSTANT StdFds   (* 3: the standard streams are the descriptors below it  *)

(* Of the calls CloseFds considers, the program makes these.  It opens     *)
(* files with O_CLOEXEC.                                                   *)
ASSUME CommandAssumption ==
  /\ StdFds \in 0..IntMax
  /\ MinFds = {StdFds}
  /\ Ops = {"close", "cloexec"}
  /\ KeepLists = Fd \X Fd
  /\ TRUE \in Flags

VARIABLES
  stage,     (* "open", "unset", "fork" and "panicked" in the parent,      *)
             (* "child", "execed" and "lost" in the child                  *)
  files,     (* f1, f2, f3, as far as they are open                        *)
  unset,     (* how many of them have gone through unset_cloexec           *)
  inherited  (* history: what exec() alone would have left the command     *)

cmdVars == <<stage, files, unset, inherited>>
allVars == <<vars, cmdVars>>

(* fs::File::open("/").unwrap(): the file is opened with O_CLOEXEC, or the *)
(* table is full.                                                          *)
OpenFile ==
  /\ stage = "open"
  /\ \/ \E d \in Fd :
          /\ LowestFree(d)
          /\ open' = open \cup {d}
          /\ cloexec' = cloexec \cup {d}
          /\ theirs' = theirs \cup {d}
          /\ steady' = steady \cup {d}
          /\ files' = Append(files, d)
          /\ stage' = IF Len(files) = 2 THEN "unset" ELSE "open"
     \/ open = Fd /\ stage' = "panicked" /\ UNCHANGED <<tableVars, files>>
  /\ UNCHANGED <<iterVars, callVars, unset, inherited>>

(* unset_cloexec on the next file.                                         *)
Inheritable_Same(fd) == UNCHANGED cloexec

Inheritable(fd) == cloexec' = cloexec \ {fd}

UnsetCloexec ==
  /\ stage = "unset"
  /\ Inheritable(files[unset + 1])
  /\ unset' = unset + 1
  /\ stage' = IF unset = 2 THEN "fork" ELSE "unset"
  /\ UNCHANGED <<open, theirs, steady, iterVars, callVars, files, inherited>>

(* The array of the two descriptors, sorted.                               *)
Sorted(a, b) == IF a <= b THEN <<a, b>> ELSE <<b, a>>

(* fork(); the closure given to pre_exec() calls set_fds_cloexec() on      *)
(* macOS and close_open_fds() elsewhere, on a default builder.             *)
ClosureOp == IF os = "macos" THEN "cloexec" ELSE "close"

Fork ==
  /\ stage = "fork"
  /\ Call(ClosureOp, StdFds, Sorted(files[1], files[3]), "keep")
  /\ threadsafe' = FALSE /\ allow_fs' = TRUE
  /\ inherited' = open \ cloexec
  /\ stage' = "child"
  /\ UNCHANGED <<files, unset>>

(* cmd.status().unwrap() when the command cannot be spawned: no pipe to    *)
(* the child (the table is full), or no process.                           *)
SpawnFails ==
  /\ stage = "fork"
  /\ stage' = "panicked"
  /\ UNCHANGED <<vars, files, unset, inherited>>

Child ==
  /\ stage = "child"
  /\ Step
  /\ UNCHANGED cmdVars

(* exec() closes what is marked close-on-exec.                             *)
Exec ==
  /\ stage = "child" /\ pc = "done"
  /\ open' = open \ cloexec
  /\ cloexec' = {}
  /\ theirs' = theirs \ cloexec
  /\ steady' = steady \ cloexec
  /\ stage' = "execed"
  /\ UNCHANGED <<iterVars, callVars, files, unset, inherited>>

(* exec() fails: the child ends without having become the command.         *)
ExecFails ==
  /\ stage = "child" /\ pc = "done"
  /\ stage' = "lost"
  /\ UNCHANGED <<vars, files, unset, inherited>>

CommandNext ==
  \/ OpenFile \/ UnsetCloexec \/ Fork \/ SpawnFails
  \/ Child \/ Exec \/ ExecFails

CommandInit ==
  /\ Init
  /\ stage = "open" /\ files = <<>> /\ unset = 0 /\ inherited = {}

(* The program and the child keep running.                                 *)
CommandSpec ==
  CommandInit /\ [][CommandNext]_allVars /\ WF_allVars(CommandNext)

-----------------------------------------------------------------------------
(* Properties.                                                             *)

(* The command starts with the standard streams it would have inherited    *)
(* and with the two files, and with nothing else: neither the second file, *)
(* nor what other code left inheritable, nor the crate's own directory.    *)
(* Only beyond the limit of a sysconf() loop may something be left.        *)
InheritsExactly ==
  stage = "execed" =>
    LET wanted == {f \in inherited : f < StdFds} \cup {files[1], files[3]}
    IN  /\ wanted \subseteq open
        /\ \A f \in open \ wanted : f \in inherited /\ Excused(f)

(* A child that was forked gets through the closure to its exec(),         *)
(* whatever the table, the platform and the kernel: the call in it neither *)
(* hangs nor gets it killed by SIGSYS, which the parent would only see as  *)
(* the exit status of a command that never ran.                            *)
CommandStarts == (stage = "child") ~> (stage \in {"execed", "lost"})

=============================================================================
