--------------------------- MODULE OccurrenceClock ---------------------------
(***************************************************************************)
(* The timestamps of occurrences.  tapio-common/src/occurrence.rs prints   *)
(* them as RFC 3339 strings with its own calendar arithmetic, the command  *)
(* line compares those strings with cutoffs that chrono prints, and the    *)
(* controller sink parses them back, with yet another calendar.            *)
(*                                                                         *)
(* An instant is the days, the second of the day and the nanoseconds that  *)
(* unix_nanos_to_rfc3339 takes a u64 of nanoseconds apart into; the        *)
(* nanoseconds are three groups of three digits.  A string is the sequence *)
(* of its fields: those before the fraction have a fixed width, so their   *)
(* characters compare as the numbers do.                                   *)
(***************************************************************************)
EXTENDS Integers, Sequences

Group == 1000

\* '+' sorts before '.', and both before the digits.
Plus == -2
Dot  == -1

Instant(days, second, subsec) == [days |-> days, second |-> second, subsec |-> subsec]

\* Mutant: no correction for the last day of an era.
civil_from_days_no_era_end(days) ==
    LET z   == days + 719468
        era == z \div 146097
        doe == z - era * 146097
        yoe == (doe - doe \div 1460 + doe \div 36524) \div 365
        doy == doe - (365 * yoe + yoe \div 4 - yoe \div 100)
        mp  == (5 * doy + 2) \div 153
        month == IF mp < 10 THEN mp + 3 ELSE mp - 9
    IN <<yoe + era * 400 + (IF month <= 2 THEN 1 ELSE 0), month,
         doy - (153 * mp + 2) \div 5 + 1>>

\* Year, month and day of a day count (which is never negative: it comes from a u64).
civil_from_days(days) ==
    LET z   == days + 719468
        era == z \div 146097
        doe == z - era * 146097
        yoe == (doe - doe \div 1460 + doe \div 36524 - doe \div 146096) \div 365
        doy == doe - (365 * yoe + yoe \div 4 - yoe \div 100)
        mp  == (5 * doy + 2) \div 153
        month == IF mp < 10 THEN mp + 3 ELSE mp - 9
    IN <<yoe + era * 400 + (IF month <= 2 THEN 1 ELSE 0), month,
         doy - (153 * mp + 2) \div 5 + 1>>

\* The controller sink's inverse.
days_from_civil(year, month, day) ==
    LET y   == IF month <= 2 THEN year - 1 ELSE year
        era == y \div 400
        yoe == y - era * 400
        m   == IF month > 2 THEN month - 3 ELSE month + 9
        doy == (153 * m + 2) \div 5 + day - 1
        doe == yoe * 365 + yoe \div 4 - yoe \div 100 + doy
    IN era * 146097 + doe - 719468

\* The groups of a fraction, and the nanoseconds of a parsed one, which is padded.
Groups(subsec) == <<subsec \div (Group * Group), (subsec \div Group) % Group, subsec % Group>>
fraction_nanos(groups) ==
    LET g(i) == IF i <= Len(groups) THEN groups[i] ELSE 0
    IN (g(1) * Group + g(2)) * Group + g(3)

Clock(t) == <<t.second \div 3600, (t.second % 3600) \div 60, t.second % 60>>

\* Mutant: the fraction is not padded to nine digits.
unix_nanos_to_rfc3339_unpadded(t) ==
    civil_from_days(t.days) \o Clock(t)
        \o (IF t.subsec = 0 THEN <<>>
            ELSE <<Dot>> \o SelectSeq(Groups(t.subsec), LAMBDA g : g # 0))
        \o <<Plus>>

\* The agent's format: no fraction, or nine digits of it.
unix_nanos_to_rfc3339(t) ==
    civil_from_days(t.days) \o Clock(t)
        \o (IF t.subsec = 0 THEN <<>> ELSE <<Dot>> \o Groups(t.subsec)) \o <<Plus>>

\* chrono's to_rfc3339: as many groups of three digits as are needed.
to_rfc3339(t) ==
    LET g == Groups(t.subsec)
        n == IF t.subsec = 0 THEN 0 ELSE IF g[3] # 0 THEN 3 ELSE IF g[2] # 0 THEN 2 ELSE 1
    IN civil_from_days(t.days) \o Clock(t)
        \o (IF n = 0 THEN <<>> ELSE <<Dot>> \o SubSeq(g, 1, n)) \o <<Plus>>

\* The controller sink's parser, for a string of the agent's.
timestamp_to_unix_nanos(s) ==
    Instant(days_from_civil(s[1], s[2], s[3]), s[4] * 3600 + s[5] * 60 + s[6],
            IF s[7] = Dot THEN fraction_nanos(SubSeq(s, 8, Len(s) - 1)) ELSE 0)

\* The comparison of strings.
StringLess(s, t) ==
    \/ Len(s) < Len(t) /\ \A j \in DOMAIN s : s[j] = t[j]
    \/ \E i \in DOMAIN s \cap DOMAIN t :
          s[i] < t[i] /\ \A j \in 1..(i - 1) : s[j] = t[j]

\* `o.timestamp >= cutoff`.
SinceCutoff(timestamp, cutoff) == ~StringLess(timestamp, cutoff)

=============================================================================
