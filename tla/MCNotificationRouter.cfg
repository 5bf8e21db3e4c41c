SPECIFICATION RouterSpec
CONSTANTS
    pagerduty = pagerduty
    opsgenie = opsgenie
    slack = slack
    alert = alert
    resolution = resolution
    Routes = {alert, resolution}
    Kind <- KindOf
    EscalationOrder <- PagerDutyFirst
    NotificationOrder <- SlackOnly
    CountsTwice = {slack}
    SuccessFirst = {pagerduty, opsgenie}
    FailureThreshold = 2
INVARIANTS
    AudienceIsTrue
    StrandedPageNeedsFailure
    OpenNeedsMisses
CHECK_DEADLOCK FALSE
