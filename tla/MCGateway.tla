------------------------------ MODULE MCGateway ------------------------------
(* Three parts of the gateway that share no state, each explored by itself:
   the composer and its review with two messages, one of which names the two
   phrases the user may protect; the evidence of a chat; the daily trend.    *)
EXTENDS ComposerReview, EgressLedger, ProtectionTrend, TLC

VARIABLE machine

CONSTANTS memo, note, name, code
MCTexts == {memo, note}
MCValues == {name, code}
MCHolds == (memo :> {name, code}) @@ (note :> {})
MCModes == {"off", "adaptive"}
MCDetects == {}
MCSuggested == {note}
MCMinima == {[now |-> "off", seen |-> "off"], [now |-> "adaptive", seen |-> "off"],
             [now |-> "always", seen |-> "always"]}
MCSymmetry == Permutations(MCValues)

Days(r, a) == [recovery |-> r, audit |-> a]
MCPolicies == {Days(0, 3), Days(1, 1), Days(3, 3), Days(3, 1)}

Did(r, s, b) == [redacted |-> r, surviving |-> s, blocked |-> b]
MCOutcomes == {Did(1, 0, FALSE), Did(1, 1, TRUE), Did(0, 0, FALSE)}

GatewayInit ==
    /\ machine \in {"composer", "ledger", "trend"}
    /\ ComposerInit /\ LedgerInit /\ TrendInit
    /\ machine # "composer" => minimum.now = "off"

GatewayNext ==
    /\ UNCHANGED machine
    /\ \/ machine = "composer" /\ ComposerNext /\ UNCHANGED <<ledgerVars, trendVars>>
       \/ machine = "ledger" /\ LedgerNext /\ UNCHANGED <<composerVars, trendVars>>
       \/ machine = "trend" /\ TrendNext /\ UNCHANGED <<composerVars, ledgerVars>>

GatewaySpec == GatewayInit /\ [][GatewayNext]_<<composerVars, ledgerVars, trendVars, machine>>
=============================================================================
