------------------------------ MODULE Version ------------------------------
(***************************************************************************)
(* Version: two uint16 and an int16 revision, of which a negative value    *)
(* says that there is none. revision() returns it as a uint16.             *)
(***************************************************************************)
EXTENDS Integers

Versions(Numbers, Revisions) ==
  [major : Numbers, minor : Numbers, revision : Revisions]

\* revision(): the conversion of an int16 to a uint16
Revision(v) == v.revision % 65536

HasRevision(v) == v.revision > -1

\* operator==
VersionEquals(x, y) ==
  /\ x.major = y.major /\ x.minor = y.minor
  /\ (HasRevision(x) \/ HasRevision(y)) => Revision(x) = Revision(y)

\* The bug this would be: revisions are compared as they are stored
VersionLess_signed(x, y) ==
  \/ x.major < y.major
  \/ x.major = y.major /\ x.minor < y.minor
  \/ /\ x.major = y.major /\ x.minor = y.minor
     /\ x.revision < y.revision

\* operator<
VersionLess(x, y) ==
  \/ x.major < y.major
  \/ x.major = y.major /\ x.minor < y.minor
  \/ /\ x.major = y.major /\ x.minor = y.minor
     /\ HasRevision(x) \/ HasRevision(y)
     /\ Revision(x) < Revision(y)

\* operator!=, <=, > and >=
VersionDiffers(x, y) == ~ VersionEquals(x, y)
VersionAtMost(x, y) == VersionEquals(x, y) \/ VersionLess(x, y)
VersionGreater(x, y) == VersionLess(y, x)
VersionAtLeast(x, y) == VersionAtMost(y, x)

----------------------------------------------------------------------------
\* The reference: the lexicographic order of major, minor and revision. Revisions
\* that are not set are ignored: two of them are the same, none is before another.
SameRank(x, y) ==
  /\ x.major = y.major /\ x.minor = y.minor
  /\ HasRevision(x) => x.revision = y.revision

RankedBefore(x, y) ==
  \/ x.major < y.major
  \/ x.major = y.major /\ x.minor < y.minor
  \/ /\ x.major = y.major /\ x.minor = y.minor
     /\ HasRevision(x) /\ x.revision < y.revision

\* It says nothing of two versions that differ only in whether they have a revision:
\* of these the comments of the class and those of its operators say different things.
Comparable(x, y) ==
  \/ x.major # y.major \/ x.minor # y.minor
  \/ HasRevision(x) = HasRevision(y)
=============================================================================
