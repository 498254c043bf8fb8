----------------------------- MODULE ConfigFile -----------------------------
(* The user's settings, ~/.ficta/config.toml, and the processes of one host that
   read and rewrite it: launches of agents, which make the surrogate key when
   there is none, proxies that run by themselves and are edited over the
   control plane, and the setup and review commands.

   Every change reads the whole file, changes it in memory, empties the file and
   fills it again, with nothing to keep other processes out; an empty file is a
   valid configuration without a single setting.

   A setting is a key with a value or Unset.  One Boolean setting stands for the
   five of the control plane, one address for two.  Destroyed categories are a
   set or Everything; labels, the categories with a label of their own.  Not
   here: key files, settings that no command writes, the exclusions of a project
   (a file of their own, rewritten the same way), files that are not TOML.    *)
EXTENDS Naturals, FiniteSets

CONSTANTS Unset, Everything,
          Proc,       \* processes
          Shells,     \* settings a process may find in its environment
          Started,    \* settings the file may begin with
          Edits,      \* settings and values the control plane may be given
          Answers,    \* changes that setup may bring
          MaxChanges, \* bound: changes by the control plane and by reviews
          MaxStarts   \* bound: processes started

Editable == {"style", "failClosed", "address", "backends", "destroy"}
Key == Editable \cup {"backend", "labels", "exclude", "key", "require"}
Empty == [k \in Key |-> Unset]

\* A style and a switch have the values that the commands write.
Takes(k, v) == /\ k = "style" => v \in {Unset, "typed", "opaque"}
               /\ k = "failClosed" => v \in {Unset, "0", "1"}

Settings(s) == s = [k \in Key |-> s[k]] /\ \A k \in Key : Takes(k, s[k])

\* The control plane sets fields, setup answers some questions and leaves the
\* others alone; neither takes a setting away.
ASSUME ConfigFileAssumption ==
    /\ Unset \notin {"0", "1", "typed", "opaque", "regex", "default", {}} /\ Unset \notin Nat
    /\ \A s \in Shells \cup Started : Settings(s)
    /\ \A e \in Edits : e[1] \in Editable /\ e[2] # Unset /\ Takes(e[1], e[2])
    /\ \A s \in Answers : /\ DOMAIN s \subseteq Key \ {"backend", "labels", "destroy", "key"}
                           /\ \A k \in DOMAIN s : Takes(k, s[k]) /\ (k # "exclude" => s[k] # Unset)

VARIABLES
    file,     \* settings in the file
    proc,     \* per process: what it is doing
    changes,  \* changes begun
    starts,   \* processes started so far
    answered, \* observed: the last complete answer to every setting
    minted,   \* observed: keys made so far
    crowded,  \* observed: a process read or rewrote the file during another's change
    lost      \* observed: a process ended between emptying and filling the file

fileVars == <<file, proc, changes, starts, answered, minted, crowded, lost>>

(***************************************************************************)
(* What a process makes of the settings.                                   *)
(***************************************************************************)

\* The environment wins over the file.
Loaded(shell, settings) == [k \in Key |-> IF shell[k] # Unset THEN shell[k] ELSE settings[k]]

\* Settings with others laid over them.
Only(k, v) == [x \in {k} |-> v]
LaidOver(asked, settings) == [k \in Key |-> IF k \in DOMAIN asked THEN asked[k] ELSE settings[k]]

Either(a, b) == IF a # Unset THEN a ELSE b

\* What a process runs with.
Effective(env) ==
    [style |-> IF env["style"] = "typed" THEN "typed" ELSE "opaque",
     failClosed |-> IF env["failClosed"] = "0" THEN "0" ELSE "1",
     address |-> Either(env["address"], "default"),
     backends |-> Either(env["backends"], Either(env["backend"], "regex")),
     destroy |-> Either(env["destroy"], {})]

\* A mutant: the environment locks nothing.
NoneLocked(shell) == {}

\* What the environment sets cannot be edited.
LockedByShell(shell) ==
    {f \in Editable : shell[f] # Unset \/ (f = "backends" /\ shell["backend"] # Unset)}

\* What the control plane shows of the saved settings: a setting of the
\* environment, or one the file does not have, as the proxy runs with it.
Shown(shell, settings, running) ==
    [f \in Editable |->
        LET saved == CASE f = "backends" -> Either(settings["backends"], settings["backend"])
                       [] f = "style" -> IF settings["style"] = "typed" THEN "typed" ELSE Unset
                       [] OTHER -> settings[f]
        IN  IF f \in LockedByShell(shell) THEN running[f] ELSE Either(saved, running[f])]

\* Removing everything can be switched on and off in the file only.
Locked(shell, settings, running) ==
    LockedByShell(shell)
    \cup (IF Shown(shell, settings, running)["destroy"] = Everything THEN {"destroy"} ELSE {})

KeptLabels(settings, categories) == settings["labels"] \cap categories

\* A mutant: labels of categories that are no longer destroyed stay.
PatchedKeepingLabels(settings, f, v) == [settings EXCEPT ![f] = v]

\* The file after an edit of the control plane.
Patched(settings, f, v) ==
    [settings EXCEPT ![f] = v,
        !["backend"] = IF f = "backends" THEN Unset ELSE @,
        !["labels"] = IF f = "destroy" /\ @ # Unset
                      THEN (IF KeptLabels(settings, v) = {} THEN Unset ELSE KeptLabels(settings, v)) ELSE @]

(***************************************************************************)
(* Processes.                                                              *)
(***************************************************************************)

Process(kind, at, shell) ==
    [kind |-> kind, at |-> at, shell |-> shell, env |-> Empty, key |-> Unset, content |-> Empty,
     asked |-> <<>>]

Changing(p) == proc[p].at \in {"empty", "fill"}

Ended == Process("none", "none", Empty)

\* Reading or rewriting the file in the middle of another process's change.
Disturbs(p) == crowded \/ \E q \in Proc \ {p} : Changing(q)

\* A process that starts loads the settings; a wanting configuration stops it:
\* a label is for a category that is destroyed.
Load(p, kind, shell) ==
    /\ proc[p].at \in {"none", "refused"}
    /\ starts < MaxStarts /\ starts' = starts + 1
    /\ LET env == Loaded(shell, file)
           wanting == env["labels"] # Unset /\ env["destroy"] # Everything
                      /\ ~(env["labels"] \subseteq Either(env["destroy"], {}))
       IN  proc' = [proc EXCEPT ![p] =
                       [Process(kind, IF wanting THEN "refused" ELSE "loaded", shell) EXCEPT !.env = env]]
    /\ crowded' = Disturbs(p)
    /\ UNCHANGED <<file, changes, answered, minted, lost>>

\* A change, from the settings as they are read now.
Begin(p, content, asked) ==
    /\ proc' = [proc EXCEPT ![p] = [@ EXCEPT !.at = "empty", !.content = content, !.asked = asked]]
    /\ crowded' = Disturbs(p)
    /\ UNCHANGED <<starts, file, answered, lost>>

Truncate(p) ==
    /\ proc[p].at = "empty"
    /\ file' = Empty
    /\ proc' = [proc EXCEPT ![p].at = "fill"]
    /\ crowded' = Disturbs(p)
    /\ UNCHANGED <<starts, changes, answered, minted, lost>>

\* The change is complete; setup goes on to the key, the others run on.
Fill(p) ==
    /\ proc[p].at = "fill"
    /\ file' = proc[p].content
    /\ answered' = LaidOver(proc[p].asked, answered)
    /\ LET done == [proc[p] EXCEPT !.content = Empty, !.asked = <<>>]
       IN  proc' = [proc EXCEPT ![p] =
                       CASE done.kind \in {"launch", "proxy"} -> [done EXCEPT !.at = "running"]
                         [] done.kind = "setup" /\ done.key = Unset -> [done EXCEPT !.at = "keyless"]
                         [] OTHER -> Ended]
    /\ crowded' = Disturbs(p)
    /\ UNCHANGED <<starts, changes, minted, lost>>

\* Unset: with a key of its own, that nothing keeps.
Run(p, key) ==
    /\ proc' = [proc EXCEPT ![p] = IF @.at = "keyless" THEN Ended
                                    ELSE [@ EXCEPT !.key = key, !.at = "running"]]
    /\ UNCHANGED <<starts, file, changes, answered, minted, lost>>

\* A mutant: what was loaded says that there is no key.
InFileBefore(p) == proc[p].env["key"]

InFile(p) == file["key"]

\* A launch makes the key unless one is given, and so does setup in the end;
\* with a stable key required a launch refuses to make one.
EnsureKey(p) ==
    /\ proc[p].at = "keyless" \/ (proc[p].at = "loaded" /\ proc[p].kind = "launch")
    /\ LET env == proc[p].env
           fresh == Cardinality(minted) + 1
       IN  \/ /\ env["key"] # Unset
              /\ Run(p, env["key"])
              /\ UNCHANGED crowded
           \/ /\ env["key"] = Unset /\ InFile(p) # Unset
              /\ Run(p, InFile(p))
              /\ crowded' = Disturbs(p)
           \/ /\ env["key"] = Unset /\ InFile(p) = Unset
              /\ proc[p].at = "loaded" /\ env["require"] = "1"
              /\ proc' = [proc EXCEPT ![p].at = "refused"]
              /\ crowded' = Disturbs(p)
              /\ UNCHANGED <<starts, file, changes, answered, minted, lost>>
           \/ /\ env["key"] = Unset /\ InFile(p) = Unset
              /\ proc[p].at = "loaded" => env["require"] # "1"
              /\ proc' = [proc EXCEPT ![p] = [@ EXCEPT !.at = "empty", !.key = fresh,
                                                       !.content = [file EXCEPT !["key"] = fresh],
                                                       !.asked = Only("key", fresh)]]
              /\ minted' = minted \cup {fresh}
              /\ crowded' = Disturbs(p)
              /\ UNCHANGED <<starts, file, changes, answered, lost>>

\* A proxy that runs by itself makes no key.
CheckKey(p) ==
    /\ proc[p].at = "loaded" /\ proc[p].kind = "proxy"
    /\ IF proc[p].env["key"] = Unset /\ proc[p].env["require"] = "1"
       THEN proc' = [proc EXCEPT ![p].at = "refused"] /\ UNCHANGED <<starts, file, changes, answered, minted, lost>>
       ELSE Run(p, proc[p].env["key"])
    /\ UNCHANGED crowded

\* An edit of the control plane, on a running proxy.
Patch(p, f, v) ==
    /\ proc[p].at = "running" /\ proc[p].kind = "proxy"
    /\ changes < MaxChanges /\ changes' = changes + 1
    /\ f \notin Locked(proc[p].shell, file, Effective(proc[p].env))
    /\ Begin(p, Patched(file, f, v), Only(f, v))
    /\ UNCHANGED minted

\* A mutant: what setup does not ask about is not kept.
OnlyAnswers(answers) == LaidOver(answers, Empty)

Merged(answers) == LaidOver(answers, file)

\* Setup merges the answers and the settings it does not ask about; the
\* singular detector setting of old files becomes the plural one.
SetupEnds(p, answers) ==
    /\ proc[p].at = "loaded" /\ proc[p].kind = "setup"
    /\ LET given == Merged(answers)
       IN  Begin(p, [given EXCEPT !["backends"] = Either(@, given["backend"]), !["backend"] = Unset],
                 answers)
    /\ UNCHANGED <<changes, minted>>

\* A review for all projects replaces the list of excluded names.
ReviewEnds(p, names) ==
    /\ proc[p].at = "loaded" /\ proc[p].kind = "review"
    /\ changes < MaxChanges /\ changes' = changes + 1
    /\ Begin(p, [file EXCEPT !["exclude"] = names], Only("exclude", names))
    /\ UNCHANGED minted

\* A process may end at any time; in the middle of a change it leaves nothing.
Die(p) ==
    /\ proc[p].at \in {"fill", "running"}
    /\ proc' = [proc EXCEPT ![p] = Ended]
    /\ lost' = (lost \/ proc[p].at = "fill")
    /\ UNCHANGED <<starts, file, changes, answered, minted, crowded>>

ConfigFileInit ==
    /\ file \in Started /\ answered = file
    /\ minted = {}
    /\ proc = [p \in Proc |-> Process("none", "none", Empty)]
    /\ changes = 0 /\ starts = 0 /\ crowded = FALSE /\ lost = FALSE

ConfigFileNext ==
    \E p \in Proc :
      \/ \E kind \in {"launch", "proxy", "setup", "review"}, shell \in Shells : Load(p, kind, shell)
      \/ EnsureKey(p)
      \/ CheckKey(p)
      \/ \E edit \in Edits : Patch(p, edit[1], edit[2])
      \/ \E answers \in Answers : SetupEnds(p, answers)
      \/ \E names \in {Unset, "names"} : ReviewEnds(p, names)
      \/ Truncate(p) \/ Fill(p)
      \/ Die(p)

ConfigFileSpec == ConfigFileInit /\ [][ConfigFileNext]_fileVars

(***************************************************************************)
(* Properties.                                                             *)
(***************************************************************************)

ProcessType(x) ==
    /\ x = [kind |-> x.kind, at |-> x.at, shell |-> x.shell, env |-> x.env, key |-> x.key,
            content |-> x.content, asked |-> x.asked]
    /\ x.kind \in {"none", "launch", "proxy", "setup", "review"}
    /\ x.at \in {"none", "loaded", "refused", "keyless", "empty", "fill", "running"}
    /\ Settings(x.shell) /\ Settings(x.env) /\ Settings(x.content)
    /\ DOMAIN x.asked \subseteq Key /\ \A k \in DOMAIN x.asked : Takes(k, x.asked[k])

ConfigFileTypeOK ==
    /\ Settings(file) /\ Settings(answered)
    /\ proc = [p \in Proc |-> proc[p]] /\ \A p \in Proc : ProcessType(proc[p])
    /\ crowded \in BOOLEAN /\ lost \in BOOLEAN

\* Nothing came between the steps of a change, and none was cut short.
Undisturbed == ~crowded /\ ~lost
AtRest == Undisturbed /\ \A p \in Proc : ~Changing(p)

Runs(p) == proc[p].at = "running"
Keyed(p) == Runs(p) /\ proc[p].key # Unset

\* However launches, edits, setup and review follow on one another, they make at
\* most one key, and every process that has one to keep has the same.
OneKey ==
    Undisturbed => /\ Cardinality(minted) <= 1
                   /\ \A p, q \in Proc : Keyed(p) /\ Keyed(q) => proc[p].key = proc[q].key

\* What was answered last to every setting is in the file, whoever changed
\* another one since.
AnswersSurvive ==
    AtRest => /\ Effective(file) = Effective(answered)
              /\ \A k \in {"exclude", "key", "require"} : file[k] = answered[k]

\* No sequence of edits leaves a file with which the next start would refuse
\* itself: no label for a category that is not destroyed.
WrittenFileStarts == \A p \in Proc : proc[p].at = "refused" => proc[p].env["require"] = "1"

\* The settings that the control plane shows are those a restart runs with, but
\* for a style that was typed and is saved as opaque, and for detectors that the
\* environment names in the singular, which the file's plural overrules.
ShownIsNextStart ==
    \A p \in Proc : AtRest /\ Runs(p) /\ proc[p].kind = "proxy" =>
        LET running == Effective(proc[p].env)
            next == Effective(Loaded(proc[p].shell, file))
            shown == Shown(proc[p].shell, file, running)
        IN  \A f \in Editable :
                \/ shown[f] = next[f]
                \/ f = "style" /\ running[f] = "typed" /\ file[f] = "opaque"
                \/ f = "backends" /\ proc[p].shell["backend"] # Unset /\ file[f] # Unset

\* A change that a restart would apply is announced.
\* Refuted by TLC (README, refuted claims).
RestartIsAnnounced ==
    \A p \in Proc : AtRest /\ Runs(p) /\ proc[p].kind = "proxy" =>
        LET running == Effective(proc[p].env)
        IN  Effective(Loaded(proc[p].shell, file)) # running => Shown(proc[p].shell, file, running) # running

\* The settings file holds what was asked of it, can be started from, and is what
\* the control plane shows.
FileIsTrue == AnswersSurvive /\ WrittenFileStarts /\ ShownIsNextStart

=============================================================================
