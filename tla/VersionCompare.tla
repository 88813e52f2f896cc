--------------------------- MODULE VersionCompare ---------------------------
(***************************************************************************)
(* db_update_helper.py picks the configuration directory with             *)
(*     if version > '5.0.0':                                              *)
(* where version is sys.argv[1], a str.  Python 2 compares str values      *)
(* character by character on their codes, a proper prefix being smaller. *)
(* A version is modelled as the tuple of its numeric components and is     *)
(* turned into the string the operator types; characters are their ASCII  *)
(* codes ('.' is 46, '0'..'9' are 48..57).                                 *)
(***************************************************************************)
EXTENDS Naturals, Sequences

Dot == 46
DigitCode(d) == 48 + d

\* The decimal digits of n, most significant first (str(n)).
RECURSIVE DecimalDigits(_)
DecimalDigits(n) ==
    IF n < 10 THEN <<n>> ELSE DecimalDigits(n \div 10) \o <<n % 10>>

NumStr(n) == LET ds == DecimalDigits(n) IN [i \in DOMAIN ds |-> DigitCode(ds[i])]

\* '.'.join(str(c) for c in v): the version string sys.argv[1].
RECURSIVE VersionStr(_)
VersionStr(v) ==
    IF Len(v) = 1 THEN NumStr(Head(v))
    ELSE NumStr(Head(v)) \o <<Dot>> \o VersionStr(Tail(v))

\* Python 2 str comparison a < b.
RECURSIVE StrLt(_, _)
StrLt(a, b) ==
    IF a = <<>> THEN b # <<>>
    ELSE IF b = <<>> THEN FALSE
    ELSE IF Head(a) = Head(b) THEN StrLt(Tail(a), Tail(b))
    ELSE Head(a) < Head(b)

\* version > '5.0.0' as the code evaluates it.
StrVersionGt(v, w) == StrLt(VersionStr(w), VersionStr(v))

\* The reference: numeric comparison of the components, a version that is
\* a proper prefix of another being older.
RECURSIVE NumVersionLt(_, _)
NumVersionLt(v, w) ==
    IF v = <<>> THEN w # <<>>
    ELSE IF w = <<>> THEN FALSE
    ELSE IF Head(v) = Head(w) THEN NumVersionLt(Tail(v), Tail(w))
    ELSE Head(v) < Head(w)

NumVersionGt(v, w) == NumVersionLt(w, v)

=============================================================================
