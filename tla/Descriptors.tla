----------------------------- MODULE Descriptors -----------------------------
(***************************************************************************)
(* Descriptors of pipes: the global file table, the descriptor table of    *)
(* each process, and the count of descriptors a pipe has, through pipe,    *)
(* close and redirection (shell/pipe.c, fs/fs.c), fork and exit, as the    *)
(* command lines of my_shell (shell/shell.c) and the programs it starts    *)
(* use them.  System calls run with interrupts off and these do not block. *)
(* The bytes in a pipe are the subject of Pipe, files of FileSystem.       *)
(***************************************************************************)
EXTENDS Integers, FiniteSets

CONSTANTS Procs, shell, NULL,
          MAX_FILES_OPEN_PER_PROC, MAX_FILE_OPEN,
          Pages       \* kernel pages for the rings

ASSUME DescriptorsAssumption ==
  /\ shell \in Procs /\ NULL \notin Procs /\ IsFiniteSet(Procs)
  /\ MAX_FILES_OPEN_PER_PROC \in Nat /\ MAX_FILES_OPEN_PER_PROC > 4
  /\ MAX_FILE_OPEN \in Nat /\ MAX_FILE_OPEN > 3
  /\ Pages \subseteq Nat \ {0}

VARIABLES fd_table,    \* task_struct.fd_table of each process
          file_table,  \* the pipes in the global table: fd_inode, fd_pos, and,
                       \* for the properties, the ends that were not installed
          page,        \* the kernel pages in use
          proc,        \* which processes there are
          own,         \* the descriptors its program has got from pipe
          sh           \* where my_shell is: pc, fd[2] and the child it waits for

vars == <<fd_table, file_table, page, proc, own, sh>>

Fds == 0 .. MAX_FILES_OPEN_PER_PROC - 1
Counted == Fds \ 0 .. 2
Slots == 3 .. MAX_FILE_OPEN - 1
Std == [f \in Fds |-> IF f < 3 THEN f ELSE -1]
NoFile == [fd_inode |-> 0, fd_pos |-> 0, missing |-> 0]
NoPipe == <<-1, -1>>

Init ==
  /\ fd_table = [p \in Procs |-> Std]
  /\ file_table = [s \in Slots |-> NoFile]
  /\ page = {}
  /\ proc = [p \in Procs |-> IF p = shell THEN "live" ELSE "none"]
  /\ own = [p \in Procs |-> {}]
  /\ sh = [pc |-> "prompt", fd |-> NoPipe, child |-> NULL]

-----------------------------------------------------------------------------
\* The tables.

\* What a search from the lowest index on finds: the first of S, or -1.
First(x, S) == IF S = {} THEN x = -1 ELSE x \in S /\ \A y \in S : x <= y

\* get_free_slot_in_global
FreeSlots == {s \in Slots : file_table[s].fd_inode = 0}

\* pcb_fd_install: f is where the search ended.
FreeFds(tab) == {f \in Counted : tab[f] = -1}
pcb_fd_install(tab, f, slot) == IF f = -1 THEN tab ELSE [tab EXCEPT ![f] = slot]

Held(tab, s) == {f \in Counted : tab[f] = s}

\* --fd_pos n times; at 0 the slot is free.
Drop(file, n) ==
  IF n > 0 /\ file.fd_pos = n THEN NoFile ELSE [file EXCEPT !.fd_pos = @ - n]

\* Mutant: the page of the ring is never given back.
FreePages_None(files) == UNCHANGED page

\* mfree_page of the rings that are not in the new table
FreePages(files) ==
  page' = page \ {file_table[s].fd_inode : s \in {r \in Slots : files[r].fd_inode = 0}}

-----------------------------------------------------------------------------
\* The system calls.

\* sys_pipe, which leaves f and g in pipefd.  Without a free slot or a page
\* the code writes before the table or to address 0; these are left out.
Pipe(p, f, g) ==
  \E slot \in Slots, ring \in Pages :
    /\ First(slot, FreeSlots)
    /\ First(ring, Pages \ page)
    /\ First(f, FreeFds(fd_table[p]))
    /\ First(g, FreeFds(pcb_fd_install(fd_table[p], f, slot)))
    /\ fd_table' = [fd_table EXCEPT ![p] = pcb_fd_install(pcb_fd_install(@, f, slot), g, slot)]
    /\ file_table' = [file_table EXCEPT ![slot] =
                        [fd_inode |-> ring, fd_pos |-> 2,
                         missing |-> IF f = -1 THEN 2 ELSE IF g = -1 THEN 1 ELSE 0]]
    /\ page' = page \cup {ring}

\* sys_close of a pipe
Close(p, f) ==
  /\ file_table' = [file_table EXCEPT ![fd_table[p][f]] = Drop(@, 1)]
  /\ FreePages(file_table')
  /\ fd_table' = [fd_table EXCEPT ![p][f] = -1]

sys_fd_redirect(p, old, new) ==
  fd_table' = [fd_table EXCEPT ![p][old] = IF new < 3 THEN new ELSE fd_table[p][new]]

\* Mutant: the child's descriptors are not counted.
Forked_NotCounted(p, c) ==
  /\ proc[c] = "none"
  /\ proc' = [proc EXCEPT ![c] = "live"]
  /\ fd_table' = [fd_table EXCEPT ![c] = fd_table[p]]
  /\ own' = [own EXCEPT ![c] = own[p]]
  /\ UNCHANGED <<file_table, page>>

\* sys_fork: the copy of the task_struct has the descriptors, and
\* update_inode_open_cnts counts them.
Forked(p, c) ==
  /\ proc[c] = "none"
  /\ proc' = [proc EXCEPT ![c] = "live"]
  /\ fd_table' = [fd_table EXCEPT ![c] = fd_table[p]]
  /\ own' = [own EXCEPT ![c] = own[p]]
  /\ file_table' = [s \in Slots |-> [file_table[s] EXCEPT
                       !.fd_pos = @ + Cardinality(Held(fd_table[p], s))]]
  /\ UNCHANGED page

Program(p) == p # shell /\ proc[p] = "live"

sys_pipe(p) ==
  /\ Program(p)
  /\ \E f, g \in Counted \cup {-1} :
       Pipe(p, f, g) /\ own' = [own EXCEPT ![p] = @ \cup ({f, g} \ {-1})]
  /\ UNCHANGED <<proc, sh>>

\* A program closes what it has opened.
sys_close(p, f) ==
  /\ Program(p) /\ f \in own[p] /\ Close(p, f)
  /\ own' = [own EXCEPT ![p] = @ \ {f}]
  /\ UNCHANGED <<proc, sh>>

sys_fork(p, c) == Program(p) /\ Forked(p, c) /\ UNCHANGED sh

\* sys_exit: release_prog_resource closes everything from descriptor 3 on.
\* The shell waits for its child; others are collected by init.
sys_exit(p) ==
  /\ Program(p)
  /\ file_table' = [s \in Slots |-> Drop(file_table[s], Cardinality(Held(fd_table[p], s)))]
  /\ FreePages(file_table')
  /\ proc' = [proc EXCEPT ![p] = IF p = sh.child THEN "zombie" ELSE "none"]
  /\ fd_table' = [fd_table EXCEPT ![p] = Std]
  /\ own' = [own EXCEPT ![p] = {}]
  /\ UNCHANGED sh

-----------------------------------------------------------------------------
\* my_shell.

Shell(from, to) == sh.child = NULL /\ sh.pc = from /\ sh' = [sh EXCEPT !.pc = to]

ShellPipe ==
  /\ sh.child = NULL /\ sh.pc = "prompt"
  /\ \E f, g \in Counted \cup {-1} :
       Pipe(shell, f, g) /\ sh' = [sh EXCEPT !.pc = "stdout", !.fd = <<f, g>>]
  /\ UNCHANGED <<proc, own>>

Redirect(from, to, old, new) ==
  /\ Shell(from, to) /\ sys_fd_redirect(shell, old, new)
  /\ UNCHANGED <<file_table, page, proc, own>>

\* Mutant: the pipe is closed first, then the standard input restored.
ShellRestore_Late ==
  \/ Redirect("restore", "last", 1, 1)
  \/ Shell("keyboard", "close0") /\ UNCHANGED <<fd_table, file_table, page, proc, own>>

ShellRedirect == Redirect("stdout", "first", 1, sh.fd[2]) \/ Redirect("stdin", "middle", 0, sh.fd[1])
ShellRestore == Redirect("restore", "last", 1, 1) \/ Redirect("keyboard", "close0", 0, 0)

\* Where the command line goes on after a command.
After(stage) ==
  CASE stage = "prompt" -> "prompt" [] stage = "first" -> "stdin"
    [] stage = "middle" -> "middle" [] stage = "last" -> "keyboard"

Stages == {"prompt", "first", "middle", "last"}

\* cmd_execute: a built-in command, or a child that is waited for
BuiltIn(stage) == Shell(stage, After(stage)) /\ UNCHANGED <<fd_table, file_table, page, proc, own>>
External(stage, c) ==
  /\ sh.child = NULL /\ sh.pc = stage
  /\ Forked(shell, c)
  /\ sh' = [sh EXCEPT !.child = c]
ShellWait ==
  /\ sh.child # NULL /\ proc[sh.child] = "zombie"
  /\ proc' = [proc EXCEPT ![sh.child] = "none"]
  /\ sh' = [sh EXCEPT !.pc = After(@), !.child = NULL]
  /\ UNCHANGED <<fd_table, file_table, page, own>>

LastCommand == Shell("middle", "restore") /\ UNCHANGED <<fd_table, file_table, page, proc, own>>

\* Mutant: only one end of the pipe is closed.
ShellClose_One == Shell("close0", "prompt") /\ Close(shell, sh.fd[1]) /\ UNCHANGED <<proc, own>>

ShellClose ==
  /\ \/ Shell("close0", "close1") /\ Close(shell, sh.fd[1])
     \/ Shell("close1", "prompt") /\ Close(shell, sh.fd[2])
  /\ UNCHANGED <<proc, own>>

Next ==
  \/ \E p \in Procs :
       \/ sys_pipe(p) \/ sys_exit(p)
       \/ \E f \in Counted : sys_close(p, f)
       \/ \E c \in Procs : sys_fork(p, c)
  \/ ShellPipe \/ ShellRedirect \/ ShellRestore \/ ShellWait \/ LastCommand \/ ShellClose
  \/ \E stage \in Stages : BuiltIn(stage) \/ \E c \in Procs : External(stage, c)

Spec == Init /\ [][Next]_vars

-----------------------------------------------------------------------------
\* Properties.

Holders(s) == {x \in Procs \X Counted : proc[x[1]] = "live" /\ fd_table[x[1]][x[2]] = s}

TypeOK ==
  /\ fd_table \in [Procs -> [Fds -> -1 .. MAX_FILE_OPEN - 1]]
  /\ \A s \in Slots : file_table[s].fd_inode \in Pages \cup {0}
                      /\ (file_table[s].fd_inode = 0 <=> file_table[s].fd_pos = 0)
  /\ page \subseteq Pages
  /\ proc \in [Procs -> {"none", "live", "zombie"}]
  /\ sh.child \in Procs \cup {NULL}

\* A pipe counts its descriptors in all processes, and the ends that pipe
\* found no room for in the table of its caller: it is there as long as some
\* process has a descriptor of it, it goes with the last one, and no process
\* still has a descriptor of the pipe that was in its slot before.
PipeCounted ==
  \A s \in Slots : file_table[s].fd_pos = Cardinality(Holders(s)) + file_table[s].missing

\* The kernel pages in use are the rings of the pipes, each of one pipe.
RingsOwned ==
  /\ page = {file_table[s].fd_inode : s \in Slots} \ {0}
  /\ \A s, r \in Slots : file_table[s].fd_inode = file_table[r].fd_inode =>
       s = r \/ file_table[s].fd_inode = 0

\* Redirected standard descriptors are not counted: whoever has one also has
\* the pipe under a descriptor that is, also when its parent has gone on.
StdioCounted ==
  \A p \in Procs, f \in 0 .. 2 : proc[p] = "live" /\ fd_table[p][f] > 2 =>
    Held(fd_table[p], fd_table[p][f]) # {} /\ file_table[fd_table[p][f]].fd_inode # 0

\* Whatever command line it has run, at the prompt the shell has the keyboard
\* and the screen again, and no descriptor is left over.
ShellRestored == sh.pc = "prompt" /\ sh.child = NULL => fd_table[shell] = Std
=============================================================================
