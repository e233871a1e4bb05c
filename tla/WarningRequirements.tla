------------------------ MODULE WarningRequirements ------------------------
(***************************************************************************)
(* What users may rely on about expiry warnings, in terms of what they see *)
(* and do: the clock, the configuration file, the date they gave a secret  *)
(* and what get prints.  Module ExpiryWarning says how they come about.    *)
(***************************************************************************)
EXTENDS Integers

CONSTANTS
  Second, Day,
  Slack,       \* how much less than a number of days is given as that number
  MaxDuration, \* the longest time.Duration; the shortest is one less than
               \* its opposite
  Settings,    \* values of expiry_warning_days that users write
  DefaultDays,
  Absent, Broken,  \* no configuration file, and one that is not JSON
  Never, Nothing

VARIABLES
  now,
  config,     \* the configuration file: a setting, Absent or Broken
  printed,    \* what the last step, a get, printed; Nothing after others
  given,      \* history: the expiry the user last gave the secret
  last        \* history: what get said since the last change

\* What a get prints is right for the date the user last gave the secret, or
\* for an instant less than a second before it, through whatever exports and
\* imports it came: that it has expired, from then on; before that, from so
\* many days on as the configuration says, or 30 where there is none, that it
\* will; and the rounded time it names has gone by, or is left, but for the
\* Slack of the floating-point division, and not one more of its unit.
\* (Of days whose length no duration can hold, and of a secret that expired
\* longer ago than a duration can say, it does not hold; nor does what is said
\* of a setting of 0 and of a configuration file that is not JSON, which both
\* mean 30 days: docs/cli/configuration.md:108, 152.)
DatesFor(expiry) ==
  IF expiry = Never THEN {Never} ELSE expiry - Second + 1 .. expiry

Length(expiry) == IF expiry > now THEN expiry - now ELSE now - expiry

Configured == config \in Settings /\ config > 0
PromisedPeriod == Day * (IF Configured THEN config ELSE DefaultDays)

RightStatus(expiry) ==
  CASE expiry = Never -> "ok"
    [] expiry # Never /\ expiry <= now -> "expired"
    [] OTHER -> IF expiry - PromisedPeriod <= now THEN "warning" ELSE "ok"

RightFor(expiry) ==
  /\ printed.status = RightStatus(expiry)
  /\ printed.text # Nothing /\ Length(expiry) <= MaxDuration =>
       LET count == printed.text[1]  unit == printed.text[2]
       IN  /\ count * unit <= Length(expiry) + Slack
           /\ Length(expiry) < (count + 1) * unit

WarningsAreRight ==
  /\ printed # Nothing
  /\ Configured \/ config = Absent
  /\ PromisedPeriod < MaxDuration
  => \E date \in DatesFor(given) : RightFor(date)

\* As time goes by a secret that nobody changes goes from no warning to a
\* warning to expired and never back, whatever the configuration says, also
\* when the arithmetic overflows.
Rank(status) == CASE status = "ok" -> 0 [] status = "warning" -> 1
                  [] status = "expired" -> 2

NeverBack ==
  [][last # Nothing /\ last' # Nothing => Rank(last) <= Rank(last')]_last
=============================================================================
