--------------------------- MODULE MCNotificationRouter ---------------------------
(* An alert and its resolution, two escalation providers and Slack; each call is of a
   high or a low severity, which makes it an approval request as well. *)
EXTENDS NotificationRouter

CONSTANTS pagerduty, opsgenie, slack, alert, resolution

PagerDutyFirst == <<pagerduty, opsgenie>>
SlackOnly == <<slack>>
KindOf == [r \in {alert, resolution} |-> IF r = alert THEN "alert" ELSE "resolution"]
===============================================================================
