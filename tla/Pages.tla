-------------------------------- MODULE Pages --------------------------------
(* The pages of the browser on which a reviewer decides about CRM records:    *)
(* the CRM Monitor, the duplicate audit and the match review of an import.    *)
(* They may be open side by side and share nothing but the server.            *)
EXTENDS MonitorConsole, AuditConsole, MatchPanel

PagesSpec == ConsoleSpec /\ AuditSpec /\ MatchPanelSpec

(* Whatever answers arrive late, the page of the CRM Monitor shows nothing    *)
(* older than what it acknowledged, and the decision on a duplicate group and *)
(* the confirmation of a suggested match are about what the page showed when  *)
(* the button was pressed.                                                    *)
PagesTellTheTruth == ScreenIsCurrent /\ DecidedAsShown /\ ConfirmedAsShown
===============================================================================
