\* One lost session, one refused request under way: the prompt, the redirect
\* and the sign-in overlap.
SPECIFICATION Spec
CONSTANTS
  MaxExpiries = 1
  MaxDenied = 1
PROPERTIES
  SubmitsOnlySecured
  SignInGetsInside
CHECK_DEADLOCK FALSE
