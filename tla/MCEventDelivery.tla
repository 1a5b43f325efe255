-------------------------- MODULE MCEventDelivery --------------------------
EXTENDS EventDelivery

CONSTANTS this, another, slots

Run == [identity |-> this, slots |-> slots]

Report(command, kind, variant) ==
  [command |-> command, kind |-> kind, variant |-> variant, execution |-> this, slots |-> slots]

Start == Report("s", "started", 1)
Restated == Report("s", "started", 2)
Complete == Report("r", "completed", 1)
Cancel == Report("c", "cancelled", 1)

\* A start reported twice with different contents, a result and a cancellation.
RacingEvents == {Start, Restated, Complete, Cancel}

\* The token of one start sent with the other, which has the same command.
SwappedToken == {[grant |-> EventGrant(Restated), event |-> Start]}

\* The same with a token for the start, but for the purpose of results.
ForResults == [purpose |-> "contest-result-event", event |-> Start]
WrongTokens == SwappedToken \cup {[grant |-> ForResults, event |-> Start]}

\* The start of another execution, whose commands are the same, comes here.
Stray == [Start EXCEPT !.execution = another]

\* A start and the result a game keeps reporting, and what another game reports.
PlainAndStray == {Start, Complete, Stray}
None == {}
=============================================================================
