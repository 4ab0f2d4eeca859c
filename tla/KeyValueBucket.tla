--------------------------- MODULE KeyValueBucket ---------------------------
(***************************************************************************)
(* A JetStream key-value bucket, as the counter, presence and chat stores  *)
(* use it.  A write names the revision that the caller read, and is        *)
(* refused when the key has been written since.  Instead of numbering the  *)
(* revisions, fresh[c] holds the keys not written since caller c last read *)
(* or wrote them: a write of c under the revision it knows succeeds        *)
(* exactly when the key is in fresh[c].                                    *)
(***************************************************************************)
EXTENDS Naturals, Integers, Sequences, FiniteSets

CONSTANTS
    Callers,   \* the handlers, requests and jobs that use the bucket at the same time
    Absent,    \* the value of a key that does not exist
    BucketRetries,   \* compare-and-swap attempts of one update
    MaxFaults  \* bound: failed calls and crashed callers

VARIABLES
    kv,        \* the bucket: a function from the keys that exist to their values
    fresh,     \* of a caller, the keys whose last revision it knows
    faults     \* failed calls and crashed callers so far

bucketVars == <<kv, fresh, faults>>

ASSUME BucketAssumption == BucketRetries \in Nat \ {0} /\ MaxFaults \in Nat

BucketInit ==
    /\ kv = [k \in {} |-> Absent]
    /\ fresh = [c \in Callers |-> {}]
    /\ faults = 0

Value(k) == IF k \in DOMAIN kv THEN kv[k] ELSE Absent

CountOf(k) == IF k \in DOMAIN kv THEN kv[k] ELSE 0

\* Get: the caller now knows the last revision.
Get(c, k) == fresh' = [fresh EXCEPT ![c] = @ \cup {k}] /\ UNCHANGED kv

WithKey(k, v) ==
    IF v = Absent THEN [i \in DOMAIN kv \ {k} |-> kv[i]]
    ELSE [i \in DOMAIN kv \cup {k} |-> IF i = k THEN v ELSE kv[i]]

\* The effect of Create, Update (v a value) and Delete (v = Absent) when the
\* revision is the last one.
WriteKey(c, k, v) ==
    /\ kv' = WithKey(k, v)
    /\ fresh' = [d \in Callers |-> IF d = c THEN fresh[d] \cup {k} ELSE fresh[d] \ {k}]

\* The bucket drops a key that was not written for its TTL.
Drop(k) ==
    /\ kv' = WithKey(k, Absent)
    /\ fresh' = [d \in Callers |-> fresh[d] \ {k}]

\* A caller that ends knows no revision any more.
Forget(c) == fresh' = [fresh EXCEPT ![c] = {}]
=============================================================================
