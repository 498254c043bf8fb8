---------------------------- MODULE ConfigPanel -----------------------------
(* The gateway's panel for the proxy's settings.  A choice is sent to the proxy
   at once, a text when nothing was typed for a while; the panel counts what it
   sends and takes no notice of the answer to anything but the latest.  Requests
   are served in any order, and one may be given up while the proxy still has it.

   The proxy rewrites its file in one step here (ConfigFile has the steps).   *)
EXTENDS ConfigFile

CONSTANTS Text,     \* addresses that may be typed
          NoUrl,    \* those of them the proxy refuses
          MaxSends  \* bound: choices and texts

ASSUME ConfigPanelAssumption == Unset \notin Text

VARIABLES
    runs,    \* the proxy: its environment at the start, and what it runs with
    stored,  \* the settings in the file
    draft,   \* what the panel shows
    status,  \* "idle", "saving", "saved", "error"
    seq,     \* the latest save or keystroke
    timer,   \* a text that waits to be sent
    pending, \* a text typed and not known to be saved
    flights, \* requests under way
    sent,    \* choices and keystrokes so far
    last,    \* observed: the latest request served
    astray   \* observed: a request was served late, or a text was not saved

panelVars == <<runs, stored, draft, status, seq, timer, pending, flights, sent, last, astray>>

Displayed(settings) == Shown(runs.shell, settings, runs.with)

Request(n, f, v) == [n |-> n, field |-> f, value |-> v, was |-> draft[f], at |-> "sent", values |-> draft]

Send(f, v) ==
    /\ seq' = seq + 1
    /\ flights' = flights \cup {Request(seq + 1, f, v)}
    /\ status' = "saving"

\* A choice shows at once; a locked one cannot be made.
Choose(f, v) ==
    /\ sent < MaxSends /\ sent' = sent + 1
    /\ f # "address" /\ f \notin Locked(runs.shell, stored, runs.with)
    /\ draft[f] # v
    /\ draft' = [draft EXCEPT ![f] = v]
    /\ Send(f, v)
    /\ UNCHANGED <<runs, stored, timer, pending, last, astray>>

Type(v) ==
    /\ sent < MaxSends /\ sent' = sent + 1
    /\ "address" \notin LockedByShell(runs.shell)
    /\ draft["address"] # v
    /\ draft' = [draft EXCEPT !["address"] = v]
    /\ seq' = seq + 1
    /\ timer' = v /\ pending' = v
    /\ status' = "saving"
    /\ UNCHANGED <<runs, stored, flights, last, astray>>

TypingStops ==
    /\ timer # Unset
    /\ Send("address", timer)
    /\ timer' = Unset
    /\ UNCHANGED <<runs, stored, draft, pending, sent, last, astray>>

\* The proxy answers an edit with all the settings as they are shown now.
Serve(r) ==
    /\ r.at \in {"sent", "orphan"}
    /\ LET refused == (r.field = "address" /\ r.value \in NoUrl) \/ r.field \in Locked(runs.shell, stored, runs.with)
           now == IF refused THEN stored ELSE Patched(stored, r.field, r.value)
           answer == [r EXCEPT !.at = IF refused THEN "failed" ELSE "done", !.values = Displayed(now)]
       IN  /\ stored' = now
           /\ flights' = (flights \ {r}) \cup (IF r.at = "sent" THEN {answer} ELSE {})
           /\ astray' = (astray \/ r.n < last)
    /\ last' = IF r.n > last THEN r.n ELSE last
    /\ UNCHANGED <<runs, draft, status, seq, timer, pending, sent>>

\* The proxy cannot be reached, or its answer takes too long; it may have the
\* request all the same.
GiveUp(r) ==
    /\ r.at \in {"sent", "done"}
    /\ \E had \in BOOLEAN :
          /\ had => r.at = "sent"
          /\ flights' = (flights \ {r}) \cup {[r EXCEPT !.at = "failed"]}
                        \cup (IF had THEN {[r EXCEPT !.at = "orphan"]} ELSE {})
    /\ UNCHANGED <<runs, stored, draft, status, seq, timer, pending, sent, last, astray>>

\* A mutant: every answer counts.
Heard(r) == TRUE

Latest(r) == r.n = seq

\* A choice that failed is taken back, a text stays as it was typed.
Arrive(r) ==
    /\ r.at \in {"done", "failed"}
    /\ flights' = flights \ {r}
    /\ IF ~Latest(r) THEN UNCHANGED <<draft, status, pending>>
       ELSE IF r.at = "failed"
       THEN /\ draft' = IF r.field = "address" THEN draft ELSE [draft EXCEPT ![r.field] = r.was]
            /\ status' = "error"
            /\ UNCHANGED pending
       ELSE /\ pending' = IF r.field = "address" /\ pending = r.value THEN Unset ELSE pending
            /\ draft' = IF pending' = Unset THEN r.values ELSE [r.values EXCEPT !["address"] = pending']
            /\ status' = "saved"
    /\ astray' = (astray \/ (r.at = "failed" /\ r.field = "address"))
    /\ UNCHANGED <<runs, stored, seq, timer, sent, last>>

ConfigPanelInit ==
    /\ \E shell \in Shells, settings \in Started :
          /\ runs = [shell |-> shell, with |-> Effective(Loaded(shell, settings))]
          /\ stored = settings
          /\ draft = Shown(shell, settings, Effective(Loaded(shell, settings)))
    /\ status = "idle" /\ seq = 0 /\ sent = 0 /\ last = 0
    /\ timer = Unset /\ pending = Unset /\ flights = {} /\ astray = FALSE

ConfigPanelNext ==
    \/ \E edit \in Edits : Choose(edit[1], edit[2])
    \/ \E v \in Text : Type(v)
    \/ TypingStops
    \/ \E r \in flights : Serve(r) \/ GiveUp(r) \/ Arrive(r)

ConfigPanelSpec == ConfigPanelInit /\ [][ConfigPanelNext]_panelVars

(***************************************************************************)
(* Properties.                                                             *)
(***************************************************************************)

Settled == status = "saved" /\ timer = Unset /\ flights = {}

\* When the panel says that everything is saved, what it shows is what the file
\* has, if the requests were served as they were sent and every text was taken.
SavedIsShown == Settled /\ ~astray => draft = Displayed(stored)

\* The claim as the panel makes it ("Saved. Restart the proxy to apply changes").
\* Refuted by TLC (README, refuted claims).
SavedIsSaved == Settled => draft = Displayed(stored)

=============================================================================
