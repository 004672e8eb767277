SPECIFICATION Spec
INVARIANTS
  HttpTextRight
  MailTextRight
  InputRight
  LocationsFound
  MailLogin
  MailRelayed
CHECK_DEADLOCK FALSE
