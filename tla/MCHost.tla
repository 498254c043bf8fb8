------------------------------- MODULE MCHost -------------------------------
(* Three parts of a host that share no state, each explored by itself: the
   capture logs of an agent and of a proxy that runs alone, with two passes;
   the settings file under two processes; the panel that edits it.           *)
EXTENDS HostLogs, ConfigPanel, TLC

VARIABLE machine

CONSTANTS ag, gw, u1, u2, s1, p1, p2, card

\* One proxy carries requests; the other's directory is there to be pruned.
MCLogs == Cardinality({u \in Unit : process[u] = "running"}) = 1

MCShells == {Empty, [Empty EXCEPT !["backend"] = "presidio", !["style"] = "opaque"]}
MCStarted == {Empty,
              [Empty EXCEPT !["require"] = "1"],
              [Empty EXCEPT !["style"] = "typed", !["backend"] = "presidio", !["key"] = 9,
                            !["destroy"] = {card}, !["labels"] = {card}],
              [Empty EXCEPT !["destroy"] = Everything, !["labels"] = {card}]}
MCEdits == {<<"style", "opaque">>, <<"style", "typed">>, <<"failClosed", "0">>,
            <<"backends", "regex">>, <<"destroy", {}>>}
MCAnswers == {[address |-> "a", backends |-> "presidio", require |-> "0", failClosed |-> "1"]}

HostInit ==
    /\ machine \in {"logs", "file", "panel"}
    /\ HostLogsInit /\ ConfigFileInit /\ ConfigPanelInit
    /\ MCLogs
    /\ machine # "logs" => process[ag] = "running"
    /\ machine # "file" => file = Empty
    /\ machine # "panel" => runs.shell = Empty /\ stored = Empty

HostNext ==
    /\ UNCHANGED machine
    /\ \/ machine = "logs" /\ HostLogsNext /\ UNCHANGED <<fileVars, panelVars>>
       \/ machine = "file" /\ ConfigFileNext /\ UNCHANGED <<logVars, panelVars>>
       \/ machine = "panel" /\ ConfigPanelNext /\ UNCHANGED <<logVars, fileVars>>

HostSpec == HostInit /\ [][HostNext]_<<logVars, fileVars, panelVars, machine>>

Symm == Permutations(Pruner)
=============================================================================
