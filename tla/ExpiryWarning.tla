--------------------------- MODULE ExpiryWarning ----------------------------
(***************************************************************************)
(* Expiry dates and the warnings about them: one secret that is imported   *)
(* with a date or without, set anew, exported and restored                 *)
(* (internal/daemon/server.go), the configuration file, which every get    *)
(* reads anew (internal/config/config.go), and what get prints about the   *)
(* date (cmd/omnivault/expiry.go, internal/expiry/expiry.go).              *)
(*                                                                         *)
(* Instants are numbers, of a unit that Minute, Hour and Day are multiples *)
(* of; a time.Duration lies between MinDuration and MaxDuration.           *)
(***************************************************************************)
EXTENDS WarningRequirements

CONSTANTS
  Instants,   \* instants at which secrets may expire
  Starts, MaxTicks,     \* instants at which it may begin; bound: how long
  Minute, Hour,
  Blur        \* what float64 adds to a duration that it cuts to days

VARIABLES
  ticks,
  secret,     \* Nothing, or when it expires: an instant or Never
  backup,     \* the same of the secret in an export file
  givenBackup \* history: the expiry the user gave that one

clock == <<now, ticks>>
vars == <<clock, secret, backup, config, printed, given, givenBackup, last>>

Expiries == Instants \cup {Never}

ASSUME ExpiryConstants ==
  /\ Instants \subseteq Int /\ Starts \subseteq Int
  /\ MaxTicks \in Nat /\ MaxDuration \in Nat \ {0}
  /\ {Second, Minute, Hour, Day} \subseteq Nat \ {0}
  /\ Slack \in Nat /\ Blur \in [0..MaxDuration -> 0..Slack]
  /\ Settings \subseteq Int /\ DefaultDays \in Nat \ {0}
-----------------------------------------------------------------------------
(* Durations *)

MinDuration == -MaxDuration - 1

Wrapped(n) == ((n - MinDuration) % (2 * (MaxDuration + 1))) + MinDuration

\* time.Time.Sub stops at the ends.
SubWraps(t, u) == Wrapped(t - u)
Sub(t, u) == IF t - u > MaxDuration THEN MaxDuration
             ELSE IF t - u < MinDuration THEN MinDuration ELSE t - u

Negated(d) == Wrapped(-d)

\* The conversion to int drops the fraction, whatever the sign.  Of hours and
\* minutes a float64 holds the fraction well enough as far as they are
\* printed; of months and years it may round up to a whole number of days.
Quotient(d, unit) ==
  CASE d < 0 -> -((-d) \div unit)
    [] d >= 0 /\ unit = Day -> (d + Blur[d]) \div unit
    [] d >= 0 /\ unit # Day -> d \div unit

\* The largest unit of which there is one, and how many: <<0, Minute>> is
\* "less than a minute", and what is less than nothing is that too.
FormatDuration(duration) ==
  LET d == IF duration < 0 THEN Negated(duration) ELSE duration
      units == {u \in {Minute, Hour, Day} : Quotient(d, u) > 0}
  IN  IF units = {} THEN <<0, Minute>>
      ELSE LET largest == CHOOSE u \in units : \A w \in units : u >= w
           IN  <<Quotient(d, largest), largest>>
-----------------------------------------------------------------------------
(* Checking *)

\* LoadConfig, with the default in place of a file that cannot be read or
\* parsed, and GetExpiryWarningDays.
WarningDays ==
  IF config \in Settings /\ config > 0 THEN config ELSE DefaultDays

Status(until, days) ==
  IF until <= 0 THEN "expired"
  ELSE IF until <= Wrapped(days * Day) THEN "warning" ELSE "ok"

\* checkExpiryWarning: CheckNow and WriteWarning.
Warning(expiry) ==
  LET until == Sub(expiry, now)
      status == Status(until, WarningDays)
  IN  [status |-> status,
       text |-> CASE status = "expired" -> FormatDuration(Negated(until))
                  [] status = "warning" -> FormatDuration(until)
                  [] OTHER -> Nothing]

Silence == [status |-> "ok", text |-> Nothing]

Get ==
  /\ secret # Nothing
  /\ printed' = IF secret = Never THEN Silence ELSE Warning(secret)
  /\ last' = printed'.status
  /\ UNCHANGED <<clock, secret, backup, config, given, givenBackup>>
-----------------------------------------------------------------------------
(* Changing *)

Changed == printed' = Nothing /\ last' = Nothing

\* The store marshals a date without the fraction of a second.
Marshalled(expiry) ==
  IF expiry \in {Never, Nothing} THEN expiry ELSE (expiry \div Second) * Second

\* handleImport: with merge a secret that is there is left alone.  A date in
\* the file reaches the secret's metadata.
MergedLosingDate(expiry, merge) == IF merge /\ secret # Nothing THEN secret ELSE Never
Merged(expiry, merge) == IF merge /\ secret # Nothing THEN secret ELSE expiry

Import(expiry, merge) ==
  /\ secret' = Merged(Marshalled(expiry), merge)
  /\ given' = IF merge /\ secret # Nothing THEN given ELSE expiry
  /\ Changed
  /\ UNCHANGED <<clock, backup, config, givenBackup>>

Export ==
  /\ secret # Nothing
  /\ backup' = secret /\ givenBackup' = given
  /\ printed' = Nothing
  /\ UNCHANGED <<clock, secret, config, given, last>>

Restore(merge) ==
  /\ backup # Nothing
  /\ secret' = Merged(Marshalled(backup), merge)
  /\ given' = IF merge /\ secret # Nothing THEN given ELSE givenBackup
  /\ Changed
  /\ UNCHANGED <<clock, backup, config, givenBackup>>

\* setSecret builds the secret anew: the date is gone.
Set ==
  /\ secret' = Never /\ given' = Never
  /\ Changed
  /\ UNCHANGED <<clock, backup, config, givenBackup>>

Delete ==
  /\ secret' = Nothing /\ given' = Nothing
  /\ Changed
  /\ UNCHANGED <<clock, backup, config, givenBackup>>

EditConfig(file) ==
  /\ config' = file
  /\ Changed
  /\ UNCHANGED <<clock, secret, backup, given, givenBackup>>

Tick ==
  /\ ticks < MaxTicks
  /\ now' = now + 1 /\ ticks' = ticks + 1
  /\ printed' = Nothing
  /\ UNCHANGED <<secret, backup, config, given, givenBackup, last>>
-----------------------------------------------------------------------------
Init ==
  /\ now \in Starts /\ ticks = 0
  /\ secret = Nothing /\ backup = Nothing /\ config = Absent
  /\ printed = Nothing /\ last = Nothing
  /\ given = Nothing /\ givenBackup = Nothing

Next ==
  \/ Get
  \/ \E expiry \in Expiries, merge \in BOOLEAN : Import(expiry, merge)
  \/ Export
  \/ \E merge \in BOOLEAN : Restore(merge)
  \/ Set \/ Delete
  \/ \E file \in Settings \cup {Absent, Broken} : EditConfig(file)
  \/ Tick

Spec == Init /\ [][Next]_vars
=============================================================================
