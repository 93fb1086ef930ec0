------------------------------ MODULE CronLock ------------------------------
(***************************************************************************)
(* infrastructure/redis/cron-lock.service.ts: runExclusive on several      *)
(* instances, for one job name.  The lock is a Redis key that holds the    *)
(* token of the attempt that set it, for ttlMs.  Tokens are numbered.      *)
(***************************************************************************)
EXTENDS Naturals, FiniteSets

CONSTANTS
  Instances,
  MaxTokens  \* bound: attempts to take the lock

VARIABLES
  lock,    \* the token in Redis, 0 for no key
  tick,    \* tick[i]: where instance i is, and its token
  tries,   \* tokens generated so far
  period,  \* history: tokens that took the lock less than ttlMs ago
  failed   \* history: tokens whose job threw

cronVars == <<lock, tick, tries, period, failed>>

Waiting == [pc |-> "idle", token |-> 0]

CronInit ==
  /\ lock = 0 /\ tries = 0 /\ period = {} /\ failed = {}
  /\ tick = [i \in Instances |-> Waiting]

Attempt(i, pc) ==
  /\ tick[i].pc = "idle" /\ tries < MaxTokens
  /\ tries' = tries + 1 /\ tick' = [tick EXCEPT ![i] = [pc |-> pc, token |-> tries + 1]] /\ UNCHANGED failed
SetKey == lock' = tries + 1 /\ period' = period \union {tries + 1}

\* SET key token PX ttl NX answered OK: the job runs under the lock.
runExclusive(i) == lock = 0 /\ Attempt(i, "job") /\ SetKey
\* The command fails, having reached Redis or not: the job runs without the lock.
RunWithoutLock(i) ==
  /\ Attempt(i, "unlocked")
  /\ (lock = 0 /\ SetKey) \/ UNCHANGED <<lock, period>>
JobDone(i) ==
  /\ tick[i].pc \in {"job", "unlocked"}
  /\ tick' = [tick EXCEPT ![i] = Waiting] /\ UNCHANGED <<lock, tries, period, failed>>
\* The job throws; without the lock there is nothing to release.
JobFails(i) ==
  /\ tick[i].pc \in {"job", "unlocked"} /\ failed' = failed \union {tick[i].token}
  /\ tick' = [tick EXCEPT ![i] = IF @.pc = "job" THEN [@ EXCEPT !.pc = "release"] ELSE Waiting]
  /\ UNCHANGED <<lock, tries, period>>
RELEASE_SCRIPT_Fault(t) == 0
\* The key is deleted only if it still holds the attempt's own token.
RELEASE_SCRIPT(t) == IF lock = t THEN 0 ELSE lock
Release(i) ==
  /\ tick[i].pc = "release" /\ lock' = RELEASE_SCRIPT(tick[i].token)
  /\ tick' = [tick EXCEPT ![i] = Waiting] /\ UNCHANGED <<tries, period, failed>>
\* Redis does not answer the release, or the instance ends: the key stays until it expires.
Abandon(i) ==
  /\ tick[i].pc # "idle" /\ tick' = [tick EXCEPT ![i] = Waiting] /\ UNCHANGED <<lock, tries, period, failed>>
\* ttlMs after token t was stored; the job may still be running.
Expires(t) ==
  /\ t \in period /\ period' = period \ {t} /\ lock' = (IF lock = t THEN 0 ELSE lock)
  /\ UNCHANGED <<tick, tries, failed>>

CronNext ==
  \/ \E i \in Instances : runExclusive(i) \/ RunWithoutLock(i) \/ JobDone(i) \/ JobFails(i) \/ Release(i) \/ Abandon(i)
  \/ \E t \in 1..MaxTokens : Expires(t)
CronSpec == CronInit /\ [][CronNext]_cronVars

CronTypeOK ==
  /\ lock \in 0..MaxTokens /\ tries \in 0..MaxTokens /\ period \subseteq 1..MaxTokens /\ failed \subseteq 1..MaxTokens
  /\ \A i \in Instances : tick[i].pc \in {"idle", "job", "unlocked", "release"} /\ tick[i].token \in 0..MaxTokens

\* Within one ttl the lock is taken at most once by runs that did not throw, also when an
\* earlier run outlived its own ttl and releases late (the comment of runExclusive, line 17).
OneRunPerPeriod == \A s, t \in period \ failed : s = t
=============================================================================
