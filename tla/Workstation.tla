----------------------------- MODULE Workstation -----------------------------
(***************************************************************************)
(* The life of the program: main and run_render around render::run and     *)
(* headless::run, for several instances that share one configuration file. *)
(*                                                                         *)
(* A start is one action up to the spawn of the pipeline, since it reads   *)
(* the file once.  A save is the three file operations it consists of,     *)
(* between which other instances run, the file is edited by hand, or the   *)
(* process dies.  The pipeline is running or not; Pipeline.tla models it.  *)
(***************************************************************************)
EXTENDS ConfigFile

CONSTANTS
    Instances,
    Launches,     \* [argv, xdg, home]: command lines and environments
    Edits,        \* [path, file]: what a hand edit may leave where
    ViewValues,   \* values the operator gives to some of the view's settings
    InitialText,  \* the configuration file at the beginning
    MaxLaunches,  \* bound: starts in one behaviour
    MaxChanges,   \* bound: changes of the view in one behaviour
    MaxEdits      \* bound: hand edits in one behaviour

Paths == {"given", "xdg", "home"}

(* A file is a sequence of lines, none when it is absent.                  *)
IsText(text) == text \in Seq(ToSet(text))
IsFile(file) == IsText(file.text) /\ (file = Absent \/ file.state \in {"present", "unreadable"})

(* The keys of the view are words.                                         *)
ASSUME WorkstationAssumption ==
    /\ None \notin ViewKeys \cup Paths \cup Instances
    /\ ViewKeys \cap MalformedKeys = {}
    /\ IsText(InitialText)
    /\ \A e \in Edits : e.path \in Paths /\ IsFile(e.file)

VARIABLES
    config,       \* the files at the paths an instance may use
    pc,           \* where main is
    cfg,          \* the loaded Config
    path,         \* config_path
    view,         \* the view settings as the window shows them
    contents,     \* what save is about to write
    tmp,          \* the temporary file of the instance
    pipeline,     \* "none", "running" or "stopped"
    code,         \* the exit code to be
    alone,        \* history: the file is as loaded but for a completed save of its own
    base,         \* history: the file as save read it
    launches, changes, edits

instvars == <<pc, cfg, path, view, contents, tmp, pipeline, code, alone, base>>
vars == <<config, instvars, launches, changes, edits>>

Success == 0
Failure == 1
UsageError == 2
Live == {"headless", "opening", "open", "reading", "writing", "renaming", "stopping"}

-----------------------------------------------------------------------------
(* cli.rs and paths.rs *)

(* One more argument.  Once there is an outcome the rest is not looked at. *)
ParseArg(a, arg) ==
    IF a.outcome # "args" THEN a
    ELSE IF a.wants_path THEN [a EXCEPT !.wants_path = FALSE, !.config_path = "given"]
    ELSE CASE arg \in {"--help", "-h"}    -> [a EXCEPT !.outcome = "help"]
           [] arg \in {"--version", "-V"} -> [a EXCEPT !.outcome = "version"]
           [] arg = "--headless"          -> [a EXCEPT !.headless = TRUE]
           [] arg = "--config"            -> [a EXCEPT !.wants_path = TRUE]
           [] OTHER -> IF arg = "--other" \/ a.site # None THEN [a EXCEPT !.outcome = "error"]
                       ELSE [a EXCEPT !.site = arg]

cli_parse(argv) ==
    LET a == FoldLeft(ParseArg, [outcome |-> "args", site |-> None, config_path |-> None,
                                 headless |-> FALSE, wants_path |-> FALSE], argv)
    IN  IF a.outcome = "args" /\ a.wants_path THEN [a EXCEPT !.outcome = "error"] ELSE a

(* sites::by_id is membership in the table.                                *)
resolve_site(cli_site, config_site) ==
    IF cli_site # None THEN (IF cli_site \in Sites THEN cli_site ELSE None) ELSE config_site

(* A variable is unset, empty, relative or absolute.                       *)
xdg_dir(xdg, home) ==
    IF xdg = "absolute" THEN "xdg" ELSE IF home = "absolute" THEN "home" ELSE None

config_path(args, l) ==
    IF args.config_path # None THEN "given" ELSE xdg_dir(l.xdg, l.home)

-----------------------------------------------------------------------------
(* The configuration file *)

(* The file at p changes by the hand of who: for every other live instance *)
(* it is no longer the one that was loaded.                                *)
Replace(p, file, who) ==
    /\ config' = [config EXCEPT ![p] = file]
    /\ alone' = [i \in Instances |-> alone[i] /\ (i = who \/ path[i] # p)]

HandEdit ==
    /\ edits < MaxEdits
    /\ \E e \in Edits : e.file # config[e.path] /\ Replace(e.path, e.file, None)
    /\ edits' = edits + 1
    /\ UNCHANGED <<pc, cfg, path, view, contents, tmp, pipeline, code, base, launches, changes>>

-----------------------------------------------------------------------------
(* main.rs *)

Default == [k \in ViewKeys |-> CASE k = "window.width"  -> 1280
                                 [] k = "window.height" -> 800
                                 [] k = "view.product"  -> 0
                                 [] OTHER               -> 1]

initial_view(c) == [k \in ViewKeys |-> IF c[k] = None THEN Default[k] ELSE c[k]]

Init ==
    /\ config = [p \in Paths |-> IF p = "xdg" THEN Present(InitialText) ELSE Absent]
    /\ pc = [i \in Instances |-> "off"]
    /\ cfg = [i \in Instances |-> default]
    /\ path = [i \in Instances |-> None]
    /\ view = [i \in Instances |-> Default]
    /\ contents = [i \in Instances |-> <<>>]
    /\ tmp = [i \in Instances |-> "none"]
    /\ pipeline = [i \in Instances |-> "none"]
    /\ code = [i \in Instances |-> None]
    /\ alone = [i \in Instances |-> FALSE]
    /\ base = [i \in Instances |-> Absent]
    /\ launches = 0 /\ changes = 0 /\ edits = 0

(* main up to run_render or headless::run: usage, load, site, runtime.     *)
Launch(i) ==
    \E l \in Launches, runtime_built \in BOOLEAN :
        LET args   == cli_parse(l.argv)
            where  == config_path(args, l)
            loaded == IF where = None THEN default ELSE load(config[where]).config
            site   == resolve_site(args.site, loaded[SITE_KEY])
            ends   == IF args.outcome \in {"help", "version"} THEN Success
                      ELSE IF args.outcome = "error" \/ site = None THEN UsageError
                      ELSE IF ~runtime_built THEN Failure ELSE None
        IN  /\ pc[i] \in {"off", "exited", "killed"} /\ launches < MaxLaunches
            /\ pc' = [pc EXCEPT ![i] = IF ends # None THEN "exited"
                                       ELSE IF args.headless THEN "headless" ELSE "opening"]
            /\ code' = [code EXCEPT ![i] = ends]
            /\ pipeline' = [pipeline EXCEPT ![i] = IF ends = None THEN "running" ELSE "none"]
            /\ IF ends # None THEN UNCHANGED <<cfg, path, view>>
               ELSE /\ cfg' = [cfg EXCEPT ![i] = loaded]
                    /\ path' = [path EXCEPT ![i] = where]
                    /\ view' = [view EXCEPT ![i] = initial_view(loaded)]
            /\ alone' = [alone EXCEPT ![i] = ends = None /\ ~args.headless]
            /\ contents' = [contents EXCEPT ![i] = <<>>]
            /\ base' = [base EXCEPT ![i] = Absent]
            /\ launches' = launches + 1
            /\ UNCHANGED <<config, tmp, changes, edits>>

(* headless::run returns when stdin closes; nothing is saved.              *)
StdinCloses(i) ==
    /\ pc[i] = "headless"
    /\ pc' = [pc EXCEPT ![i] = "stopping"]
    /\ code' = [code EXCEPT ![i] = Success]
    /\ UNCHANGED <<config, cfg, path, view, contents, tmp, pipeline, alone, base, launches,
                   changes, edits>>

(* resumed: the window and the GPU came up.                                *)
WindowOpens(i) ==
    /\ pc[i] = "opening"
    /\ pc' = [pc EXCEPT ![i] = "open"]
    /\ UNCHANGED <<config, cfg, path, view, contents, tmp, pipeline, code, alone, base,
                   launches, changes, edits>>

RenderFails_ReturnsAtOnce(i) ==
    /\ pc[i] \in {"opening", "open"}
    /\ pc' = [pc EXCEPT ![i] = "exited"]
    /\ code' = [code EXCEPT ![i] = Failure]
    /\ UNCHANGED <<config, cfg, path, view, contents, tmp, pipeline, alone, base, launches,
                   changes, edits>>

(* render::run returns an error: the event loop could not be built, the    *)
(* window or the GPU did not come up, presentation was lost, or the event  *)
(* loop failed.  Nothing is saved.                                         *)
RenderFails(i) ==
    /\ pc[i] \in {"opening", "open"}
    /\ pc' = [pc EXCEPT ![i] = "stopping"]
    /\ code' = [code EXCEPT ![i] = Failure]
    /\ UNCHANGED <<config, cfg, path, view, contents, tmp, pipeline, alone, base, launches,
                   changes, edits>>

(* A resize, a product key, a layer toggle.                                *)
ChangeView(i) ==
    /\ pc[i] = "open" /\ changes < MaxChanges
    /\ \E k \in DOMAIN ViewValues : \E v \in ViewValues[k] \ {view[i][k]} :
            view' = [view EXCEPT ![i][k] = v]
    /\ changes' = changes + 1
    /\ UNCHANGED <<config, pc, cfg, path, contents, tmp, pipeline, code, alone, base,
                   launches, edits>>

changed_AgainstDefault(i) == {k \in ViewKeys : view[i][k] # Default[k]}

(* The settings that differ from the file as it was loaded.                *)
changed(i) == {k \in ViewKeys : cfg[i][k] # view[i][k]}

CloseWindow(i) ==
    /\ pc[i] = "open"
    /\ pc' = [pc EXCEPT ![i] = IF path[i] # None /\ changed(i) # {} THEN "reading" ELSE "stopping"]
    /\ code' = [code EXCEPT ![i] = Success]
    /\ UNCHANGED <<config, cfg, path, view, contents, tmp, pipeline, alone, base, launches,
                   changes, edits>>

(* save reads the file again; if it cannot, it gives up.                   *)
SaveRead(i) ==
    LET file == config[path[i]]
    IN  /\ pc[i] = "reading"
        /\ IF file.state = "unreadable"
           THEN /\ pc' = [pc EXCEPT ![i] = "stopping"]
                /\ alone' = [alone EXCEPT ![i] = FALSE]
                /\ UNCHANGED <<contents, base>>
           ELSE /\ pc' = [pc EXCEPT ![i] = "writing"]
                /\ contents' = [contents EXCEPT ![i] =
                                    save(file.text, [k \in changed(i) |-> view[i][k]])]
                /\ base' = [base EXCEPT ![i] = file]
                /\ UNCHANGED alone
        /\ UNCHANGED <<config, cfg, path, view, tmp, pipeline, code, launches, changes, edits>>

WriteTmp_InPlace(i) ==
    /\ pc[i] = "writing"
    /\ \E n \in 0..Len(contents[i]) :
            config' = [config EXCEPT ![path[i]] = Present(SubSeq(contents[i], 1, n))]
    /\ pc' = [pc EXCEPT ![i] = "renaming"]
    /\ UNCHANGED <<cfg, path, view, contents, tmp, pipeline, code, alone, base, launches,
                   changes, edits>>

(* write_atomic: the new text goes to a file of its own; a full disk       *)
(* leaves a part of it there, a path without a parent nothing.             *)
WriteTmp(i) ==
    /\ pc[i] = "writing"
    /\ \/ /\ tmp' = [tmp EXCEPT ![i] = "whole"]
          /\ pc' = [pc EXCEPT ![i] = "renaming"]
          /\ UNCHANGED alone
       \/ /\ \E left \in {"partial", tmp[i]} : tmp' = [tmp EXCEPT ![i] = left]
          /\ pc' = [pc EXCEPT ![i] = "stopping"]
          /\ alone' = [alone EXCEPT ![i] = FALSE]
    /\ UNCHANGED <<config, cfg, path, view, contents, pipeline, code, base, launches, changes,
                   edits>>

Rename(i) ==
    /\ pc[i] = "renaming"
    /\ pc' = [pc EXCEPT ![i] = "stopping"]
    /\ \/ /\ Replace(path[i], Present(contents[i]), i)
          /\ tmp' = [tmp EXCEPT ![i] = "none"]
       \/ /\ alone' = [alone EXCEPT ![i] = FALSE]
          /\ UNCHANGED <<config, tmp>>
    /\ UNCHANGED <<cfg, path, view, contents, pipeline, code, base, launches, changes, edits>>

(* pipeline.shutdown, then main returns.                                   *)
Shutdown(i) ==
    /\ pc[i] = "stopping"
    /\ pc' = [pc EXCEPT ![i] = "exited"]
    /\ pipeline' = [pipeline EXCEPT ![i] = "stopped"]
    /\ UNCHANGED <<config, cfg, path, view, contents, tmp, code, alone, base, launches,
                   changes, edits>>

(* The process dies; a write that was under way may have begun.            *)
Kill(i) ==
    /\ pc[i] \in Live
    /\ pc' = [pc EXCEPT ![i] = "killed"]
    /\ tmp' = [tmp EXCEPT ![i] = IF pc[i] = "writing" THEN "partial" ELSE @]
    /\ pipeline' = [pipeline EXCEPT ![i] = "none"]
    /\ alone' = [alone EXCEPT ![i] = FALSE]
    /\ UNCHANGED <<config, cfg, path, view, contents, code, base, launches, changes, edits>>

Step(i) ==
    \/ Launch(i) \/ StdinCloses(i) \/ WindowOpens(i) \/ RenderFails(i) \/ ChangeView(i)
    \/ CloseWindow(i) \/ SaveRead(i) \/ WriteTmp(i) \/ Rename(i) \/ Shutdown(i) \/ Kill(i)

Next == HandEdit \/ \E i \in Instances : Step(i)

Spec == Init /\ [][Next]_vars

(* main goes on by itself once the window is closed.                       *)
FairSpec == Spec /\ \A i \in Instances :
                WF_vars(SaveRead(i) \/ WriteTmp(i) \/ Rename(i) \/ Shutdown(i))

-----------------------------------------------------------------------------
(* Properties *)

(* new holds every line of old that defines none of the keys where it was, *)
(* and nothing else but lines that define one of them.                     *)
KeepsOtherLines(new, old, keys) ==
    /\ DOMAIN old \subseteq DOMAIN new
    /\ \A n \in DOMAIN new :
          IF n \in DOMAIN old /\ line_key(old[n]) \notin keys THEN new[n] = old[n]
          ELSE line_key(new[n]) \in keys

(* Whatever step saves, fails half way or dies, the file changes only by   *)
(* the completed save of an instance whose window was closed cleanly, and  *)
(* then it holds, in place, every line the save read that does not define  *)
(* a setting changed by that instance: comments, broken lines, unknown     *)
(* keys, the site, other settings (run_render, save, write_atomic).        *)
SaveKeepsOtherLines ==
    [][\A p \in Paths : (config'[p] # config[p] /\ edits' = edits) =>
          \E i \in Instances :
              /\ path[i] = p /\ pc[i] \in Live /\ pc'[i] = "stopping" /\ code[i] = Success
              /\ KeepsOtherLines(config'[p].text, base[i].text, changed(i))]_vars

(* A window that was closed cleanly comes back as it was: until the file   *)
(* is changed by someone else, loading it gives every setting the value it *)
(* had at the close, unless the value is one load refuses or the file      *)
(* defines the key twice (run_render, save and load together).             *)
ViewIsRestored ==
    \A i \in Instances :
        (pc[i] = "exited" /\ code[i] = Success /\ alone[i] /\ path[i] # None) =>
            \A k \in ViewKeys :
                LET file == config[path[i]]
                IN  \/ load(file).config[k] = view[i][k]
                    \/ apply_key(k, view[i][k]) = None
                    \/ Cardinality(LinesOf(file.text, k)) > 1

(* However the session ends, by a closed window, a lost surface, a GPU     *)
(* that did not come up or an end of input, and whatever happens to the    *)
(* file meanwhile, the process ends, and not before its pipeline is shut   *)
(* down (main).                                                            *)
EndsWithPipelineJoined ==
    \A i \in Instances :
        (code[i] # None /\ pipeline[i] = "running") ~>
            (pc[i] = "killed" \/ (pc[i] = "exited" /\ pipeline[i] = "stopped"))
=============================================================================
