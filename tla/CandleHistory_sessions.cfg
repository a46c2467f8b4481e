\* A week of sessions, looked at every quarter of an hour.
CONSTANT ClockStep = 15
SPECIFICATION Spec
PROPERTIES ConfirmsInSessions
