------------------------------ MODULE RedisWindow ------------------------------
(***************************************************************************)
(* The sorted set a RedisWindowCounter keeps per (rule, group), as the     *)
(* function z from members to scores; score 0 stands for a member that is  *)
(* not in the set (real scores are epoch milliseconds, always positive).   *)
(* hit and hit_distinct are one Lua script or one MULTI block each, so one *)
(* operator each: ZADD, ZREMRANGEBYSCORE 0 horizon-1; the answer is ZCARD. *)
(* The EXPIRE in each of them belongs to the key: the modules that use the *)
(* operators keep its deadline and drop the key (WindowCounter's Expire,   *)
(* Detector's and Correlator's Tick).                                      *)
(***************************************************************************)
EXTENDS Integers, FiniteSets

\* ZCARD
ZCard(z) == Cardinality({x \in DOMAIN z : z[x] # 0})

\* Faulty variant: nothing ages out.
ZTrim_None(z, horizon) == z

\* ZREMRANGEBYSCORE key 0 horizon-1
ZTrim(z, horizon) == [x \in DOMAIN z |-> IF z[x] < horizon THEN 0 ELSE z[x]]

\* hit: a plain ZADD, which also moves the score of a known member.
ZHit(z, m, now, window) == ZTrim([z EXCEPT ![m] = now], now - window)

\* hit_distinct: ZADD GT, which never lowers the score of a known value.
ZHitDistinct(z, v, now, window) ==
    ZTrim([z EXCEPT ![v] = IF now > z[v] THEN now ELSE z[v]], now - window)
================================================================================
