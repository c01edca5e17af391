----------------------------- MODULE GfvomsSync -----------------------------
(***************************************************************************)
(* main() of gftool/gfvoms-sync/gfvoms-sync/gfvoms-sync.py: invocations of *)
(* the command, each by a process p of Procs.  A sync invocation without   *)
(* -g runs gfvoms-list, which writes the VO's membership to the fixed path *)
(* vomslist_tmpfile = /tmp/vomslist.tmp, then gfvoms-update, which applies *)
(* the file named by options["vomslist"] to gfarm, then removes the file.  *)
(* A deletion invocation (-d) runs gfvoms-update -d only.                  *)
(*                                                                         *)
(* gfvoms-list and gfvoms-update are external programs: each is one step   *)
(* that succeeds or fails.  A failed gfvoms-list may leave a truncated     *)
(* list behind.  A list is named by the VO whose membership it holds.      *)
(* When a process ends (sys.exit or normal return) it may be invoked again *)
(* with new options.                                                       *)
(***************************************************************************)
EXTENDS FiniteSets

CONSTANTS
    Procs,    \* concurrent invocations of gfvoms-sync
    VOs,      \* VO names given with -v
    NoFile,   \* no file at vomslist_tmpfile
    NoList    \* gfarm holds no membership for the VO

Partial(v) == <<"partial", v>>

Lists == VOs \cup {Partial(v) : v \in VOs}

ASSUME NoFile \notin Lists /\ NoList \notin Lists

VARIABLES
    pc,     \* where each invocation is in main()
    opt,    \* the options dictionary of each invocation
    tmp,    \* the content of vomslist_tmpfile
    gfarm   \* the membership gfarm holds for each VO

vars == <<pc, opt, tmp, gfarm>>

\* -s / -d present or not, -g given or not, -n given or not, and -v.
Options == [sync : BOOLEAN, del : BOOLEAN, userList : BOOLEAN,
            noupd : BOOLEAN, vo : VOs]

\* check_options(): exactly one of -s and -d (usage() exits otherwise).
OptionsOK(o) == o.sync # o.del

Init ==
    /\ pc = [p \in Procs |-> "idle"]
    /\ opt = [p \in Procs |-> CHOOSE o \in Options : TRUE]
    /\ tmp = NoFile
    /\ gfarm = [v \in VOs |-> NoList]

\* options["vomslist"]: the -g file (holding the VO's membership) or the
\* temporary file gfvoms-list wrote.
IsTmpFile(p) == ~opt[p].userList

Source(p) == IF IsTmpFile(p) THEN tmp ELSE opt[p].vo

\* usage(e): prints the usage text (and e) and calls sys.exit; sys.exit
\* alone for the other option and command errors.  The invocation ends.
Usage(p) == pc' = [pc EXCEPT ![p] = "exit"]

\* parse_options(), check_options() and the lookup of the two commands:
\* usage() or sys.exit() end the invocation (bad options, or a command not
\* found); otherwise a sync without -g
\* goes on to gfvoms-list, any other to gfvoms-update.
Start(p) ==
    /\ pc[p] = "idle"
    /\ \E o \in Options :
         /\ opt' = [opt EXCEPT ![p] = o]
         /\ \/ Usage(p)
            \/ /\ OptionsOK(o)
               /\ pc' = [pc EXCEPT ![p] =
                           IF ~o.del /\ ~o.userList THEN "list" ELSE "update"]
    /\ UNCHANGED <<tmp, gfarm>>

\* os.system(gfvoms_list ...) returns 0: the VO's list is at the fixed path.
ListOk(p) ==
    /\ pc[p] = "list"
    /\ tmp' = opt[p].vo
    /\ pc' = [pc EXCEPT ![p] = "update"]
    /\ UNCHANGED <<opt, gfarm>>

\* Faulty variant: the exit status of gfvoms-list not checked.
ListFailIgnored(p) ==
    /\ pc[p] = "list"
    /\ tmp' \in {tmp, Partial(opt[p].vo)}
    /\ pc' = [pc EXCEPT ![p] = "update"]
    /\ UNCHANGED <<opt, gfarm>>

\* gfvoms-list fails, maybe after writing part of the list: raise
\* Exception("gfvoms-list failed!"), caught, and sys.exit.
ListFail(p) ==
    /\ pc[p] = "list"
    /\ tmp' \in {tmp, Partial(opt[p].vo)}
    /\ pc' = [pc EXCEPT ![p] = "exit"]
    /\ UNCHANGED <<opt, gfarm>>

\* os.system(gfvoms_update ...) returns 0.  With -d it deletes the VO's
\* membership; otherwise it applies the list at options["vomslist"], which
\* must exist.  With -n it changes nothing.
UpdateOk(p) ==
    /\ pc[p] = "update"
    /\ opt[p].del \/ Source(p) # NoFile
    /\ gfarm' = IF opt[p].noupd THEN gfarm
                ELSE [gfarm EXCEPT ![opt[p].vo] =
                        IF opt[p].del THEN NoList ELSE Source(p)]
    /\ pc' = [pc EXCEPT ![p] = IF opt[p].del THEN "exit" ELSE "cleanup"]
    /\ UNCHANGED <<opt, tmp>>

UpdateFail(p) ==
    /\ pc[p] = "update"
    /\ pc' = [pc EXCEPT ![p] = "exit"]
    /\ UNCHANGED <<opt, tmp, gfarm>>

\* "Synchronization Finished Successfully!": the temporary list is removed
\* when one is at the path (whoever wrote it).
Cleanup(p) ==
    /\ pc[p] = "cleanup"
    /\ tmp' = IF IsTmpFile(p) THEN NoFile ELSE tmp
    /\ pc' = [pc EXCEPT ![p] = "exit"]
    /\ UNCHANGED <<opt, gfarm>>

\* The command is invoked again.
Rerun(p) ==
    /\ pc[p] = "exit"
    /\ pc' = [pc EXCEPT ![p] = "idle"]
    /\ UNCHANGED <<opt, tmp, gfarm>>

Next ==
    \E p \in Procs :
        \/ Start(p) \/ ListOk(p) \/ ListFail(p) \/ UpdateOk(p)
        \/ UpdateFail(p) \/ Cleanup(p) \/ Rerun(p)

Spec == Init /\ [][Next]_vars

-----------------------------------------------------------------------------
\* gfvoms-sync -s -v vo: gfarm's membership of a VO is only ever set from
\* the complete list of that VO, never from another VO's list nor from a
\* truncated one a failed gfvoms-list left at the fixed temporary path.
OwnCompleteList == \A v \in VOs : gfarm[v] \in {NoList, v}

=============================================================================
