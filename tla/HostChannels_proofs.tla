------------------------ MODULE HostChannels_proofs ------------------------
(***************************************************************************)
(* Ownership of host channels, for every number of channels, devices and   *)
(* endpoints.  The inductive invariant is about the pool record alone, so  *)
(* it is proved once for each pool operator and every handler, being a     *)
(* composition of those operators, inherits it.  Types and the channels    *)
(* kept for control pipes do not depend on the history variable harm;      *)
(* ownership is claimed while it is "none", so PoolInv has its value as a  *)
(* parameter.  The list of endpoint objects is not part of the invariant:  *)
(* ownership must not rest on who is on it.                                *)
(***************************************************************************)
EXTENDS HostChannels, TLAPS

PoolInv(m, p) == /\ p \in Pool /\ PoolReserved(p)
                 /\ m = "none" => PoolExclusive(p) /\ PoolBacked(p)

IInv == TypeOK /\ PoolInv(harm, pool)

USE HCMaxAssumption, SubtreeAssumption, HolderAssumption

(* USBH_GetFreeChannel: the result is an unused channel, and one above the
   control channels for an endpoint, or -1. *)
LEMMA GetFreeChannelResult ==
  ASSUME NEW p \in Pool, NEW h \in Holders, GetFreeChannel(p, h) # None
  PROVE  /\ GetFreeChannel(p, h) \in HC
         /\ ~p.used[GetFreeChannel(p, h)]
         /\ h \in Eps => GetFreeChannel(p, h) >= 2
<1> DEFINE start == IF h \in Ctl THEN 0 ELSE 2
<1>1. GetFreeChannel(p, h) \in LowestFree(p, start)
  BY DEF GetFreeChannel
<1>2. h \in Eps => start = 2
  BY DEF Ctl, Pipes
<1>3. QED
  BY <1>1, <1>2 DEF LowestFree

(* A record is a pool exactly when its five fields have their types. *)
LEMMA PoolFields ==
  ASSUME NEW p
  PROVE  p \in Pool <=>
           /\ p = [used |-> p.used, tgl |-> p.tgl, armed |-> p.armed, idx |-> p.idx, saved |-> p.saved]
           /\ p.used \in [HC -> BOOLEAN] /\ p.armed \in [HC -> BOOLEAN]
           /\ p.tgl \in [HC -> {0, 1}]
           /\ p.idx \in [Holders -> HC \cup {None}]
           /\ p.saved \in [Eps -> {None, 0, 1}]
  BY DEF Pool

(* USBH_Open_Channel for a holder without a channel keeps the invariant. *)
LEMMA OpenChannelInv ==
  ASSUME NEW m, NEW p, PoolInv(m, p), NEW h \in Holders, p.idx[h] = None
  PROVE  /\ PoolInv(m, OpenChannel(p, h))
         /\ OpenChannel(p, h).saved = p.saved
         /\ \A g \in Holders \ {h} : OpenChannel(p, h).idx[g] = p.idx[g]
<1> DEFINE c == GetFreeChannel(p, h)
           q == OpenChannel(p, h)
<1> USE DEF PoolInv, PoolExclusive, PoolBacked, PoolReserved
<1>1. CASE c = None
  <2>1. q.idx = [p.idx EXCEPT ![h] = None] /\ p.idx \in [Holders -> HC \cup {None}]
    BY <1>1, PoolFields DEF OpenChannel
  <2>2. q = p
    BY <1>1, <2>1, PoolFields DEF OpenChannel
  <2>3. QED
    BY <2>2
<1>2. CASE c # None
  <2>1. c \in HC /\ ~p.used[c] /\ (h \in Eps => c >= 2)
    BY <1>2, GetFreeChannelResult
  <2>p. /\ p = [used |-> p.used, tgl |-> p.tgl, armed |-> p.armed, idx |-> p.idx, saved |-> p.saved]
        /\ p.used \in [HC -> BOOLEAN] /\ p.tgl \in [HC -> {0, 1}] /\ p.armed \in [HC -> BOOLEAN]
        /\ p.idx \in [Holders -> HC \cup {None}] /\ p.saved \in [Eps -> {None, 0, 1}]
    BY PoolFields
  <2>2. /\ q.idx = [p.idx EXCEPT ![h] = c]
        /\ q.used = [p.used EXCEPT ![c] = TRUE]
        /\ q.tgl = [p.tgl EXCEPT ![c] = 0]
        /\ q.armed = [p.armed EXCEPT ![c] = FALSE]
        /\ q.saved = p.saved
        /\ q = [used |-> q.used, tgl |-> q.tgl, armed |-> q.armed, idx |-> q.idx, saved |-> q.saved]
    BY <1>2, <2>p DEF OpenChannel, HCInit
  <2> HIDE DEF q, c
  <2>3. \A g \in Holders : q.idx[g] = IF g = h THEN c ELSE p.idx[g]
    BY <2>2, <2>p
  <2>4. \A b \in HC : q.used[b] <=> b = c \/ p.used[b]
    BY <2>2, <2>1, <2>p
  <2>5. q \in Pool
    <3>1. /\ q.used \in [HC -> BOOLEAN] /\ q.tgl \in [HC -> {0, 1}] /\ q.armed \in [HC -> BOOLEAN]
          /\ q.idx \in [Holders -> HC \cup {None}]
      BY <2>1, <2>2, <2>p
    <3>2. QED
      BY <3>1, <2>2, <2>p, PoolFields
  <2>6. m = "none" => \A g \in Holders : p.idx[g] # c
    BY <2>1 DEF HC, None
  <2>7. m = "none" => PoolExclusive(q)
    BY <2>3, <2>6
  <2>8. (m = "none" => PoolBacked(q)) /\ PoolReserved(q)
    <3>1. m = "none" => \A g \in Holders : q.idx[g] # None => q.idx[g] \in HC /\ q.used[q.idx[g]]
      <4> SUFFICES ASSUME m = "none", NEW g \in Holders, q.idx[g] # None
                   PROVE  q.idx[g] \in HC /\ q.used[q.idx[g]]
        OBVIOUS
      <4>1. CASE g = h
        BY <4>1, <2>1, <2>3, <2>4
      <4>2. CASE g # h
        <5>1. q.idx[g] = p.idx[g] /\ p.idx[g] \in HC
          BY <4>2, <2>3, <2>p
        <5>2. p.used[p.idx[g]]
          BY <5>1
        <5>3. QED
          BY <5>1, <5>2, <2>4
      <4>3. QED
        BY <4>1, <4>2
    <3>2. \A e \in Eps : q.idx[e] = None \/ q.idx[e] >= 2
      BY <2>1, <2>3 DEF Holders
    <3>3. QED
      BY <3>1, <3>2
  <2>9. QED
    BY <2>2, <2>3, <2>5, <2>7, <2>8 DEF q
<1>3. QED
  BY <1>1, <1>2

(* USBH_Free_Channel keeps the invariant and closes only its holder. *)
LEMMA FreeChannelInv ==
  ASSUME NEW m, NEW p, PoolInv(m, p), NEW h \in Holders
  PROVE  /\ PoolInv(m, FreeChannel(p, h))
         /\ FreeChannel(p, h).saved = p.saved
         /\ FreeChannel(p, h).idx = [p.idx EXCEPT ![h] = None]
<1> DEFINE q == FreeChannel(p, h)
<1> USE DEF PoolInv, PoolExclusive, PoolBacked, PoolReserved
<1>p. /\ p = [used |-> p.used, tgl |-> p.tgl, armed |-> p.armed, idx |-> p.idx, saved |-> p.saved]
      /\ p.used \in [HC -> BOOLEAN] /\ p.tgl \in [HC -> {0, 1}] /\ p.armed \in [HC -> BOOLEAN]
      /\ p.idx \in [Holders -> HC \cup {None}] /\ p.saved \in [Eps -> {None, 0, 1}]
  BY PoolFields
<1>1. CASE p.idx[h] = None
  <2>1. p.idx = [p.idx EXCEPT ![h] = None]
    BY <1>1, <1>p
  <2>2. QED
    BY <1>1, <2>1 DEF FreeChannel
<1>2. CASE p.idx[h] # None
  <2> DEFINE c == p.idx[h]
  <2>1. c \in HC
    BY <1>2, <1>p
  <2>2. /\ q.idx = [p.idx EXCEPT ![h] = None]
        /\ q.used = [p.used EXCEPT ![c] = FALSE]
        /\ q.tgl = p.tgl /\ q.armed = p.armed /\ q.saved = p.saved
        /\ q = [used |-> q.used, tgl |-> q.tgl, armed |-> q.armed, idx |-> q.idx, saved |-> q.saved]
    BY <1>2, <1>p DEF FreeChannel
  <2> HIDE DEF q
  <2>3. q \in Pool
    <3>1. q.used \in [HC -> BOOLEAN] /\ q.idx \in [Holders -> HC \cup {None}]
      BY <2>1, <2>2, <1>p
    <3>2. QED
      BY <3>1, <2>2, <1>p, PoolFields
  <2>4. \A g \in Holders : q.idx[g] = IF g = h THEN None ELSE p.idx[g]
    BY <2>2, <1>p
  <2>5. \A b \in HC : q.used[b] <=> b # c /\ p.used[b]
    BY <2>1, <2>2, <1>p
  <2>6. m = "none" => PoolExclusive(q)
    BY <2>4
  <2>7. PoolReserved(q)
    BY <2>4 DEF Holders
  <2>8. m = "none" => PoolBacked(q)
    <3> SUFFICES ASSUME m = "none", NEW g \in Holders, q.idx[g] # None
                 PROVE  q.used[q.idx[g]]
      OBVIOUS
    <3>1. g # h /\ q.idx[g] = p.idx[g] /\ p.idx[g] \in HC
      BY <2>4, <1>p
    <3>2. p.idx[g] # c /\ p.used[p.idx[g]]
      BY <3>1
    <3>3. QED
      BY <3>1, <3>2, <2>5
  <2>9. QED
    BY <2>2, <2>3, <2>6, <2>7, <2>8 DEF q
<1>3. QED
  BY <1>1, <1>2

(* USBH_Dev_AllocControl, whether or not the pool has room for both pipes. *)
LEMMA AllocControlInv ==
  ASSUME NEW m, NEW p, PoolInv(m, p), NEW d \in Devs
  PROVE  /\ PoolInv(m, AllocControl(p, d))
         /\ AllocControl(p, d).saved = p.saved
         /\ \A e \in Eps : AllocControl(p, d).idx[e] = p.idx[e]
<1> DEFINE q == OpenIfClosed(p, In(d))
           r == OpenIfClosed(q, Out(d))
<1>1. In(d) \in Ctl /\ Out(d) \in Ctl
  BY DEF Ctl, Pipes, In, Out
<1>2. /\ In(d) \in Holders /\ Out(d) \in Holders
      /\ \A e \in Eps : e \in Holders /\ e # In(d) /\ e # Out(d)
  BY <1>1 DEF Holders, Ctl, Pipes
<1>3. /\ PoolInv(m, q) /\ q.saved = p.saved
      /\ \A e \in Eps : q.idx[e] = p.idx[e]
  <2>1. CASE p.idx[In(d)] = None
    BY <2>1, <1>2, OpenChannelInv DEF OpenIfClosed
  <2>2. CASE p.idx[In(d)] # None
    BY <2>2 DEF OpenIfClosed
  <2>3. QED
    BY <2>1, <2>2
<1> HIDE DEF q
<1>4. /\ PoolInv(m, r) /\ r.saved = q.saved
      /\ \A e \in Eps : r.idx[e] = q.idx[e]
  <2>1. CASE q.idx[Out(d)] = None
    BY <2>1, <1>2, <1>3, OpenChannelInv DEF OpenIfClosed
  <2>2. CASE q.idx[Out(d)] # None
    BY <2>2, <1>3 DEF OpenIfClosed
  <2>3. QED
    BY <2>1, <2>2
<1>5. QED
  BY <1>3, <1>4 DEF AllocControl, q

(* USBH_Dev_FreeControl. *)
LEMMA FreeControlInv ==
  ASSUME NEW m, NEW p, PoolInv(m, p), NEW d \in Devs
  PROVE  /\ PoolInv(m, FreeControl(p, d))
         /\ FreeControl(p, d).saved = p.saved
         /\ \A e \in Eps : FreeControl(p, d).idx[e] = p.idx[e]
<1> DEFINE q == FreeChannel(p, In(d))
<1>1. In(d) \in Ctl /\ Out(d) \in Ctl
  BY DEF Ctl, Pipes, In, Out
<1>2. /\ In(d) \in Holders /\ Out(d) \in Holders
      /\ \A e \in Eps : e \in Holders /\ e # In(d) /\ e # Out(d)
  BY <1>1 DEF Holders, Ctl, Pipes
<1>3. /\ PoolInv(m, q) /\ q.saved = p.saved /\ q.idx = [p.idx EXCEPT ![In(d)] = None]
  BY <1>2, FreeChannelInv
<1>4. \A e \in Eps : q.idx[e] = p.idx[e]
  BY <1>2, <1>3, PoolFields DEF PoolInv
<1> HIDE DEF q
<1>5. /\ PoolInv(m, FreeChannel(q, Out(d))) /\ FreeChannel(q, Out(d)).saved = q.saved
      /\ FreeChannel(q, Out(d)).idx = [q.idx EXCEPT ![Out(d)] = None]
  BY <1>2, <1>3, FreeChannelInv
<1>6. \A e \in Eps : FreeChannel(q, Out(d)).idx[e] = q.idx[e]
  BY <1>2, <1>3, <1>5, PoolFields DEF PoolInv
<1>7. QED
  BY <1>3, <1>4, <1>5, <1>6 DEF FreeControl, q

(* Writing toggles, live or saved, and starting or ending transfers cannot
   disturb ownership. *)
LEMMA ToggleInv ==
  ASSUME NEW m, NEW p, PoolInv(m, p), NEW t \in [HC -> {0, 1}],
         NEW a \in [HC -> BOOLEAN], NEW s \in [Eps -> {None, 0, 1}], NEW q,
         q = [used |-> p.used, tgl |-> t, armed |-> a, idx |-> p.idx, saved |-> s]
  PROVE  PoolInv(m, q)
<1>1. q.idx = p.idx /\ q.used = p.used /\ q.tgl = t /\ q.armed = a /\ q.saved = s
  OBVIOUS
<1>2. q \in Pool
  BY <1>1, PoolFields DEF PoolInv
<1>3. QED
  BY <1>1, <1>2 DEF PoolInv, PoolExclusive, PoolBacked, PoolReserved

(* USBH_DevIO_OpenChannel. *)
LEMMA OpenEpInv ==
  ASSUME NEW m, NEW p, PoolInv(m, p), NEW e \in Eps
  PROVE  /\ PoolInv(m, OpenEp(p, e))
         /\ OpenEp(p, e).saved = p.saved
         /\ \A f \in Eps \ {e} : OpenEp(p, e).idx[f] = p.idx[f]
<1> DEFINE q == OpenChannel(p, e)
           r == RestoreToggle(q, e)
<1>1. CASE p.idx[e] # None
  BY <1>1 DEF OpenEp
<1>2. CASE p.idx[e] = None
  <2>1. /\ PoolInv(m, q) /\ q.saved = p.saved
        /\ \A f \in Eps \ {e} : q.idx[f] = p.idx[f]
    BY <1>2, OpenChannelInv DEF Holders
  <2> HIDE DEF q
  <2>2. /\ q = [used |-> q.used, tgl |-> q.tgl, armed |-> q.armed, idx |-> q.idx, saved |-> q.saved]
        /\ q.tgl \in [HC -> {0, 1}] /\ q.armed \in [HC -> BOOLEAN] /\ q.saved \in [Eps -> {None, 0, 1}]
        /\ q.idx[e] \in HC \cup {None}
    BY <2>1, PoolFields DEF PoolInv, Holders
  <2>3. PoolInv(m, r) /\ r.saved = q.saved /\ r.idx = q.idx
    <3>1. CASE q.idx[e] = None \/ q.saved[e] = None
      BY <3>1, <2>1 DEF RestoreToggle
    <3>2. CASE ~(q.idx[e] = None \/ q.saved[e] = None)
      <4> DEFINE t == [q.tgl EXCEPT ![q.idx[e]] = q.saved[e]]
      <4>1. r = [used |-> q.used, tgl |-> t, armed |-> q.armed, idx |-> q.idx, saved |-> q.saved]
        BY <3>2, <2>2 DEF RestoreToggle
      <4>2. t \in [HC -> {0, 1}]
        BY <3>2, <2>2
      <4> HIDE DEF t
      <4>3. PoolInv(m, r)
        BY <4>1, <4>2, <2>1, <2>2, ToggleInv
      <4>4. QED
        BY <4>1, <4>3
    <3>3. QED
      BY <3>1, <3>2
  <2>4. OpenEp(p, e) = r
    BY <1>2 DEF OpenEp, q
  <2>5. QED
    BY <2>1, <2>3, <2>4
<1>3. QED
  BY <1>1, <1>2

(* calloc in USBH_DevIO_Manager_New: an object with neither channel nor saved
   toggle. *)
LEMMA EmptyEpInv ==
  ASSUME NEW m, NEW p, PoolInv(m, p), NEW e \in Eps
  PROVE  LET q == [p EXCEPT !.idx = [@ EXCEPT ![e] = None], !.saved = [@ EXCEPT ![e] = None]]
         IN  /\ PoolInv(m, q) /\ q.tgl = p.tgl /\ q.armed = p.armed
             /\ q.idx = [p.idx EXCEPT ![e] = None] /\ q.saved = [p.saved EXCEPT ![e] = None]
<1> DEFINE i == [p.idx EXCEPT ![e] = None]
           s == [p.saved EXCEPT ![e] = None]
           q == [p EXCEPT !.idx = i, !.saved = s]
<1>1. /\ p = [used |-> p.used, tgl |-> p.tgl, armed |-> p.armed, idx |-> p.idx, saved |-> p.saved]
      /\ p.used \in [HC -> BOOLEAN] /\ p.tgl \in [HC -> {0, 1}] /\ p.armed \in [HC -> BOOLEAN]
      /\ p.idx \in [Holders -> HC \cup {None}] /\ p.saved \in [Eps -> {None, 0, 1}] /\ e \in Holders
  BY PoolFields DEF PoolInv, Holders
<1>2. i \in [Holders -> HC \cup {None}] /\ s \in [Eps -> {None, 0, 1}]
  BY <1>1
<1>3. \A h \in Holders : i[h] = IF h = e THEN None ELSE p.idx[h]
  BY <1>1
<1>4. q = [used |-> p.used, tgl |-> p.tgl, armed |-> p.armed, idx |-> i, saved |-> s]
  <2>1. q = [p EXCEPT !.idx = i, !.saved = s]
    OBVIOUS
  <2> HIDE DEF q, i, s
  <2>2. QED
    BY <1>1, <2>1
<1> HIDE DEF q
<1>5. q \in Pool /\ q.idx = i /\ q.saved = s /\ q.used = p.used /\ q.tgl = p.tgl /\ q.armed = p.armed
  <2> HIDE DEF i, s
  <2>1. QED
    BY <1>1, <1>2, <1>4, PoolFields
<1>6. PoolInv(m, q)
  <2> HIDE DEF i, s
  <2>1. QED
    BY <1>3, <1>5 DEF PoolInv, PoolExclusive, PoolBacked, PoolReserved, Holders
<1>7. QED
  BY <1>5, <1>6 DEF q

(* USBH_DevIO_FreeChannel. *)
LEMMA FreeEpInv ==
  ASSUME NEW m, NEW p, PoolInv(m, p), NEW e \in Eps, NEW err \in {0, 1, 2}
  PROVE  /\ PoolInv(m, FreeEp(p, e, err))
         /\ FreeEp(p, e, err).idx = [p.idx EXCEPT ![e] = None]
<1> DEFINE q == SaveToggle(p, e, err)
<1>1. CASE p.idx[e] = None
  <2>1. p.idx = [p.idx EXCEPT ![e] = None]
    BY <1>1, PoolFields DEF PoolInv, Holders
  <2>2. QED
    BY <1>1, <2>1 DEF FreeEp
<1>2. CASE p.idx[e] # None
  <2> DEFINE t == p.tgl[p.idx[e]]
             s == [p.saved EXCEPT ![e] = IF err = 2 THEN 1 - t ELSE t]
  <2>1. /\ p = [used |-> p.used, tgl |-> p.tgl, armed |-> p.armed, idx |-> p.idx, saved |-> p.saved]
        /\ p.tgl \in [HC -> {0, 1}] /\ p.armed \in [HC -> BOOLEAN] /\ p.saved \in [Eps -> {None, 0, 1}]
        /\ p.idx \in [Holders -> HC \cup {None}] /\ e \in Holders
    BY PoolFields DEF PoolInv, Holders
  <2>2. t \in {0, 1}
    BY <1>2, <2>1
  <2>3. s \in [Eps -> {None, 0, 1}]
    BY <2>1, <2>2
  <2>4. q = [used |-> p.used, tgl |-> p.tgl, armed |-> p.armed, idx |-> p.idx, saved |-> s]
    BY <2>1 DEF SaveToggle
  <2> HIDE DEF s, q
  <2>6. PoolInv(m, q) /\ q.idx = p.idx /\ q.saved = s
    BY <2>1, <2>3, <2>4, ToggleInv
  <2>7. /\ PoolInv(m, FreeChannel(q, e)) /\ FreeChannel(q, e).saved = s
        /\ FreeChannel(q, e).idx = [p.idx EXCEPT ![e] = None]
    BY <2>1, <2>6, FreeChannelInv
  <2>8. FreeEp(p, e, err) = FreeChannel(q, e)
    BY <1>2 DEF FreeEp, q
  <2>9. QED
    BY <2>7, <2>8
<1>3. QED
  BY <1>1, <1>2


(* The indices of some holders are lost. *)
LEMMA ForgetInv ==
  ASSUME NEW m, NEW p, PoolInv(m, p), NEW S \in SUBSET Holders
  PROVE  LET q == ForgetIdx(p, S)
         IN  /\ PoolInv(m, q)
             /\ q.used = p.used /\ q.tgl = p.tgl /\ q.armed = p.armed /\ q.saved = p.saved
             /\ \A h \in Holders : q.idx[h] = IF h \in S THEN None ELSE p.idx[h]
<1> DEFINE q == ForgetIdx(p, S)
<1>1. /\ p = [used |-> p.used, tgl |-> p.tgl, armed |-> p.armed, idx |-> p.idx, saved |-> p.saved]
      /\ p.used \in [HC -> BOOLEAN] /\ p.tgl \in [HC -> {0, 1}] /\ p.armed \in [HC -> BOOLEAN]
      /\ p.idx \in [Holders -> HC \cup {None}] /\ p.saved \in [Eps -> {None, 0, 1}]
  BY PoolFields DEF PoolInv
<1>2. /\ q.idx = [h \in Holders |-> IF h \in S THEN None ELSE p.idx[h]]
      /\ q.used = p.used /\ q.tgl = p.tgl /\ q.armed = p.armed /\ q.saved = p.saved
      /\ q = [used |-> q.used, tgl |-> q.tgl, armed |-> q.armed, idx |-> q.idx, saved |-> q.saved]
  BY <1>1 DEF ForgetIdx
<1> HIDE DEF q
<1>3. q.idx \in [Holders -> HC \cup {None}]
  BY <1>1, <1>2
<1>4. \A h \in Holders : q.idx[h] = None \/ q.idx[h] = p.idx[h]
  BY <1>2
<1>5. q \in Pool
  BY <1>1, <1>2, <1>3, PoolFields
<1>6. PoolInv(m, q)
  BY <1>2, <1>4, <1>5 DEF PoolInv, PoolExclusive, PoolBacked, PoolReserved, Holders
<1>7. QED
  BY <1>2, <1>6 DEF q

(* USBH_DevIO_Manager_Remove gives the channels of some objects back, and
   whoever is left still has what it had. *)
LEMMA RemoveInv ==
  ASSUME NEW m, NEW p, PoolInv(m, p), NEW S \in SUBSET Eps
  PROVE  LET q == RemoveEps(p, S)
         IN  /\ PoolInv(m, q)
             /\ q.tgl = p.tgl /\ q.armed = p.armed /\ q.saved = p.saved
             /\ \A h \in Holders : q.idx[h] = IF h \in S THEN None ELSE p.idx[h]
<1> DEFINE q == RemoveEps(p, S)
<1>1. /\ p = [used |-> p.used, tgl |-> p.tgl, armed |-> p.armed, idx |-> p.idx, saved |-> p.saved]
      /\ p.used \in [HC -> BOOLEAN] /\ p.tgl \in [HC -> {0, 1}] /\ p.armed \in [HC -> BOOLEAN]
      /\ p.idx \in [Holders -> HC \cup {None}] /\ p.saved \in [Eps -> {None, 0, 1}]
  BY PoolFields DEF PoolInv
<1>2. /\ q.used = [c \in HC |-> p.used[c] /\ \A e \in S : p.idx[e] # c]
      /\ q.idx = [h \in Holders |-> IF h \in S THEN None ELSE p.idx[h]]
      /\ q.tgl = p.tgl /\ q.armed = p.armed /\ q.saved = p.saved
      /\ q = [used |-> q.used, tgl |-> q.tgl, armed |-> q.armed, idx |-> q.idx, saved |-> q.saved]
  <2> DEFINE u == [c \in HC |-> p.used[c] /\ \A e \in S : p.idx[e] # c]
             i == [h \in Holders |-> IF h \in S THEN None ELSE p.idx[h]]
  <2>1. q = [p EXCEPT !.used = u, !.idx = i]
    BY DEF RemoveEps
  <2> HIDE DEF q, u, i
  <2>2. q = [used |-> u, tgl |-> p.tgl, armed |-> p.armed, idx |-> i, saved |-> p.saved]
    BY <1>1, <2>1
  <2>3. QED
    BY <2>2 DEF u, i
<1> HIDE DEF q
<1>3. q.used \in [HC -> BOOLEAN] /\ q.idx \in [Holders -> HC \cup {None}]
  BY <1>1, <1>2
<1>4. \A h \in Holders : q.idx[h] = None \/ (q.idx[h] = p.idx[h] /\ h \notin S)
  BY <1>2
<1>5. q \in Pool
  BY <1>1, <1>2, <1>3, PoolFields
<1>6. PoolReserved(q) /\ (m = "none" => PoolExclusive(q))
  BY <1>4 DEF PoolInv, PoolExclusive, PoolReserved, Holders
<1>7. m = "none" => PoolBacked(q)
  <2> SUFFICES ASSUME m = "none", NEW h \in Holders, q.idx[h] # None
               PROVE  q.used[q.idx[h]]
    BY DEF PoolBacked
  <2>1. q.idx[h] = p.idx[h] /\ h \notin S /\ p.idx[h] \in HC /\ p.idx[h] # None
    BY <1>1, <1>4
  <2>2. p.used[p.idx[h]]
    BY <2>1 DEF PoolInv, PoolBacked
  <2>3. \A e \in S : p.idx[e] # p.idx[h]
    BY <2>1 DEF PoolInv, PoolExclusive, Holders
  <2>4. QED
    BY <2>1, <2>2, <2>3, <1>2
<1>8. QED
  BY <1>2, <1>5, <1>6, <1>7 DEF PoolInv, q

(* The objects that lose their index when the devices of D are unplugged. *)
LEMMA UnplugPoolInv ==
  ASSUME NEW m, NEW p, PoolInv(m, p), list \subseteq Eps, live \subseteq Eps, NEW D
  PROVE  LET q == UnplugPool(p, D)
         IN  /\ PoolInv(m, q)
             /\ q.tgl = p.tgl /\ q.armed = p.armed /\ q.saved = p.saved
             /\ \A h \in Holders : q.idx[h] = IF h \in EpsOf(D) /\ h \in list \cup live
                                              THEN None ELSE p.idx[h]
<1> DEFINE S == list \cap EpsOf(D)
           T == (live \cap EpsOf(D)) \ list
           r == RemoveEps(p, S)
<1>1. S \in SUBSET Eps /\ T \in SUBSET Holders
  BY DEF EpsOf, Holders
<1>2. /\ PoolInv(m, r) /\ r.tgl = p.tgl /\ r.armed = p.armed /\ r.saved = p.saved
      /\ \A h \in Holders : r.idx[h] = IF h \in S THEN None ELSE p.idx[h]
  <2> HIDE DEF S
  <2>1. QED
    BY <1>1, RemoveInv
<1>3. LET q == ForgetIdx(r, T)
      IN  /\ PoolInv(m, q) /\ q.tgl = r.tgl /\ q.armed = r.armed /\ q.saved = r.saved
          /\ \A h \in Holders : q.idx[h] = IF h \in T THEN None ELSE r.idx[h]
  <2> HIDE DEF T, r
  <2>1. QED
    BY <1>1, <1>2, ForgetInv
<1>4. UnplugPool(p, D) = ForgetIdx(r, T)
  BY DEF UnplugPool
<1> DEFINE q == ForgetIdx(r, T)
<1>5. \A h \in Holders : h \in S \/ h \in T <=> h \in EpsOf(D) /\ h \in list \cup live
  OBVIOUS
<1> HIDE DEF q, r, S, T
<1>6. QED
  BY <1>2, <1>3, <1>4, <1>5 DEF q

(* USBH_DeInit. *)
LEMMA DeInitInv ==
  ASSUME NEW m, NEW p, PoolInv(m, p), NEW D \in SUBSET Devs
  PROVE  LET q == DeInitControl(p, D)
         IN  /\ PoolInv(m, q)
             /\ q.tgl = p.tgl /\ q.armed = p.armed /\ q.saved = p.saved
             /\ \A e \in Eps : q.idx[e] = p.idx[e]
<1>1. Pipes(D) \in SUBSET Holders /\ \A e \in Eps : e \in Holders /\ e \notin Pipes(D)
  BY DEF Pipes, Holders, Ctl
<1>2. DeInitControl(p, D) = ForgetIdx(p, Pipes(D))
  BY DEF DeInitControl
<1> DEFINE S == Pipes(D)
<1> HIDE DEF S
<1>3. S \in SUBSET Holders /\ \A e \in Eps : e \in Holders /\ e \notin S
  BY <1>1 DEF S
<1>4. LET q == ForgetIdx(p, S)
      IN  /\ PoolInv(m, q) /\ q.tgl = p.tgl /\ q.armed = p.armed /\ q.saved = p.saved
          /\ \A h \in Holders : q.idx[h] = IF h \in S THEN None ELSE p.idx[h]
  BY <1>3, ForgetInv
<1>5. QED
  BY <1>2, <1>3, <1>4 DEF S

(* The empty pool satisfies the invariant. *)
LEMMA InitInv == Init => IInv
<1> SUFFICES ASSUME Init PROVE IInv
  OBVIOUS
<1>1. pool \in Pool
  BY DEF Init, Pool
<1>2. \A h \in Holders : pool.idx[h] = None
  BY DEF Init
<1>3. PoolInv(harm, pool)
  BY <1>1, <1>2 DEF PoolInv, PoolExclusive, PoolBacked, PoolReserved, Holders
<1>4. QED
  BY <1>1, <1>3 DEF Init, IInv, TypeOK

(* The types of everything but the pool: unplugging. *)
LEMMA UnplugTypes ==
  ASSUME TypeOK, NEW D, Unplug(D)
  PROVE  /\ live' \subseteq Eps /\ list' \subseteq Eps /\ asNeeded' \subseteq Eps
         /\ after' \in [Eps -> SUBSET Eps] /\ owner' \in [Eps -> Devs]
         /\ hasError' \in [Eps -> {0, 1, 2}]
<1> DEFINE gone == Unlinked(D)
<1>1. after' = [e \in Eps |-> IF e \in gone THEN {} ELSE after[e] \ gone]
  BY DEF Unplug
<1>2. live' \subseteq live /\ list' \subseteq list /\ UNCHANGED <<owner, asNeeded, hasError>>
  BY DEF Unplug
<1> HIDE DEF gone
<1>3. after' \in [Eps -> SUBSET Eps]
  BY <1>1 DEF TypeOK
<1>4. QED
  BY <1>2, <1>3 DEF TypeOK

(* A handler that only changes the pool and an error flag. *)
LEMMA PoolStep ==
  ASSUME IInv, PoolInv(harm, pool'), UNCHANGED devVars, hasError' \in [Eps -> {0, 1, 2}]
  PROVE  IInv'
BY DEF IInv, TypeOK, devVars, PoolInv, PoolExclusive, PoolBacked, PoolReserved

(* A handler that writes the toggle of one channel and starts or ends its
   transfer. *)
LEMMA ToggleStep ==
  ASSUME NEW m, NEW p, PoolInv(m, p), NEW c \in HC, NEW x \in {0, 1}, NEW b \in BOOLEAN, NEW q,
         q = [p EXCEPT !.tgl[c] = x, !.armed[c] = b]
  PROVE  /\ PoolInv(m, q) /\ q.idx = p.idx /\ q.saved = p.saved
         /\ q.tgl = [p.tgl EXCEPT ![c] = x] /\ q.armed = [p.armed EXCEPT ![c] = b]
<1> DEFINE t == [p.tgl EXCEPT ![c] = x]
           a == [p.armed EXCEPT ![c] = b]
<1>1. /\ p = [used |-> p.used, tgl |-> p.tgl, armed |-> p.armed, idx |-> p.idx, saved |-> p.saved]
      /\ p.tgl \in [HC -> {0, 1}] /\ p.armed \in [HC -> BOOLEAN] /\ p.saved \in [Eps -> {None, 0, 1}]
  BY PoolFields DEF PoolInv
<1>2. /\ t \in [HC -> {0, 1}] /\ a \in [HC -> BOOLEAN]
      /\ q = [used |-> p.used, tgl |-> t, armed |-> a, idx |-> p.idx, saved |-> p.saved]
  BY <1>1
<1> HIDE DEF t, a
<1>3. p.saved \in [Eps -> {None, 0, 1}] /\ PoolInv(m, p)
  BY <1>1
<1>4. PoolInv(m, q)
  BY ONLY <1>2, <1>3, ToggleInv, ZenonT(60)
<1>5. QED
  BY <1>2, <1>4 DEF t, a

(* Every handler keeps the invariant. *)
LEMMA StepInv == IInv /\ [Next]_vars => IInv'
<1> SUFFICES ASSUME IInv, [Next]_vars PROVE IInv'
  OBVIOUS
<1>i. /\ TypeOK /\ PoolInv(harm, pool) /\ pool \in Pool /\ hasError \in [Eps -> {0, 1, 2}]
      /\ live \subseteq Eps /\ list \subseteq Eps /\ attached \subseteq Devs
      /\ owner \in [Eps -> Devs] /\ after \in [Eps -> SUBSET Eps] /\ asNeeded \subseteq Eps
      /\ harm \in {"none", "cleared", "overwritten"}
  BY DEF IInv, TypeOK
<1>p. /\ pool = [used |-> pool.used, tgl |-> pool.tgl, armed |-> pool.armed, idx |-> pool.idx,
                 saved |-> pool.saved]
      /\ pool.used \in [HC -> BOOLEAN] /\ pool.tgl \in [HC -> {0, 1}] /\ pool.armed \in [HC -> BOOLEAN]
      /\ pool.idx \in [Holders -> HC \cup {None}] /\ pool.saved \in [Eps -> {None, 0, 1}]
  BY <1>i, PoolFields
<1>1. ASSUME NEW d \in Devs, Plug(d) PROVE IInv'
  BY <1>i, <1>1 DEF Plug, IInv, TypeOK, PoolInv, PoolExclusive, PoolBacked, PoolReserved
<1>2. ASSUME NEW d \in Devs, BeginControl(d) PROVE IInv'
  BY <1>i, <1>2, AllocControlInv, PoolStep DEF BeginControl
<1>3. ASSUME NEW d \in Devs, EndControl(d) PROVE IInv'
  BY <1>i, <1>3, FreeControlInv, PoolStep DEF EndControl
<1>4. ASSUME NEW e \in Eps, NEW d \in Devs, NEW n \in BOOLEAN, NewEp(e, d, n) PROVE IInv'
  <2> DEFINE fresh == [pool EXCEPT !.idx   = [@ EXCEPT ![e] = None],
                                   !.saved = [@ EXCEPT ![e] = None]]
  <2>3. PoolInv(harm, fresh)
    BY <1>i, EmptyEpInv
  <2>4. pool' = IF n THEN fresh ELSE OpenEp(fresh, e)
    BY <1>4 DEF NewEp
  <2> HIDE DEF fresh
  <2>5. PoolInv(harm, pool')
    BY <2>3, <2>4, OpenEpInv
  <2>6. harm' = harm /\ attached' = attached
    BY <1>4 DEF NewEp
  <2>7. /\ live' \subseteq Eps /\ list' \subseteq Eps /\ asNeeded' \subseteq Eps
        /\ owner' \in [Eps -> Devs] /\ hasError' \in [Eps -> {0, 1, 2}]
    BY <1>i, <1>4 DEF NewEp
  <2>8. after' \in [Eps -> SUBSET Eps]
    BY <1>i, <1>4 DEF NewEp
  <2>9. QED
    BY <1>i, <2>5, <2>6, <2>7, <2>8 DEF IInv, TypeOK, PoolInv, PoolExclusive, PoolBacked, PoolReserved
<1>5. ASSUME NEW e \in Eps, Request(e) PROVE IInv'
  <2>1. PoolInv(harm, pool') /\ hasError' \in [Eps -> {0, 1, 2}] /\ UNCHANGED devVars
    BY <1>i, <1>5, OpenEpInv DEF Request
  <2>2. QED
    BY <2>1, PoolStep
<1>6. ASSUME NEW h \in Holders, NEW flip \in BOOLEAN, Submit(h, flip) PROVE IInv'
  <2> DEFINE c == pool.idx[h]
             x == IF flip THEN 1 - pool.tgl[c] ELSE pool.tgl[c]
  <2>1. c \in HC /\ x \in {0, 1} /\ TRUE \in BOOLEAN
    BY <1>p, <1>6 DEF Submit
  <2>2. pool' = [pool EXCEPT !.tgl[c] = x, !.armed[c] = TRUE] /\ UNCHANGED <<hasError, devVars>>
    BY <1>6 DEF Submit
  <2> HIDE DEF c, x
  <2>3. PoolInv(harm, pool')
    BY <1>i, <2>1, <2>2, ToggleStep
  <2>4. QED
    BY <1>i, <2>2, <2>3, PoolStep
<1>7. ASSUME NEW c \in HC, Interrupt(c) PROVE IInv'
  <2> DEFINE x == 1 - pool.tgl[c]
  <2>1. /\ x \in {0, 1} /\ FALSE \in BOOLEAN
        /\ pool' = [pool EXCEPT !.tgl[c] = x, !.armed[c] = FALSE] /\ UNCHANGED <<hasError, devVars>>
    BY <1>p, <1>7 DEF Interrupt
  <2> HIDE DEF x
  <2>2. PoolInv(harm, pool')
    BY <1>i, <2>1, ToggleStep
  <2>3. QED
    BY <1>i, <2>1, <2>2, PoolStep
<1>8. ASSUME NEW e \in Eps, NEW err \in {1, 2}, TransferError(e, err) PROVE IInv'
  BY <1>i, <1>8, PoolStep DEF TransferError
<1>9. ASSUME NEW e \in Eps, Finalize(e) PROVE IInv'
  <2> DEFINE err == hasError[e]
  <2>1. pool' = FreeEp(pool, e, err) /\ err \in {0, 1, 2}
    BY <1>i, <1>9 DEF Finalize
  <2>2. hasError' \in [Eps -> {0, 1, 2}] /\ UNCHANGED devVars
    BY <1>i, <1>9 DEF Finalize
  <2> HIDE DEF err
  <2>3. PoolInv(harm, pool')
    BY <1>i, <2>1, FreeEpInv
  <2>4. QED
    BY <2>2, <2>3, PoolStep
<1>10. ASSUME NEW d \in Devs, DeviceGone(d) PROVE IInv'
  <2> DEFINE D == Subtree[d]
  <2>1. D \in SUBSET Devs
    OBVIOUS
  <2>2. /\ pool' = UnplugPool(DeInitControl(pool, D), D) /\ Unplug(D)
        /\ attached' = attached \ D /\ harm' = harm
    BY <1>10 DEF DeviceGone
  <2> HIDE DEF D
  <2>3. PoolInv(harm, DeInitControl(pool, D))
    BY <1>i, <2>1, DeInitInv
  <2>4. PoolInv(harm, pool')
    BY <1>i, <2>2, <2>3, UnplugPoolInv
  <2>5. QED
    BY <1>i, <2>2, <2>4, UnplugTypes
       DEF IInv, TypeOK, PoolInv, PoolExclusive, PoolBacked, PoolReserved
<1>11. ASSUME NEW d \in Devs, ErrorState(d) PROVE IInv'
  <2> DEFINE D == Subtree[d]
  <2>1. D \in SUBSET Devs
    OBVIOUS
  <2>2. /\ pool' = DeInitControl(UnplugPool(pool, D), D) /\ Unplug(D)
        /\ attached' \subseteq attached \cup {d} /\ harm' = harm
    BY <1>11 DEF ErrorState
  <2> HIDE DEF D
  <2>3. PoolInv(harm, UnplugPool(pool, D))
    BY <1>i, UnplugPoolInv
  <2>4. PoolInv(harm, pool')
    BY <2>1, <2>2, <2>3, DeInitInv
  <2>5. QED
    BY <1>i, <2>2, <2>4, UnplugTypes
       DEF IInv, TypeOK, PoolInv, PoolExclusive, PoolBacked, PoolReserved
<1>12. ASSUME RootGone PROVE IInv'
  <2> DEFINE p == UnplugPool(DeInitControl(pool, attached), attached)
             u == [c \in HC |-> FALSE]
  <2>1. PoolInv(harm, DeInitControl(pool, attached))
    BY <1>i, DeInitInv
  <2>2. PoolInv(harm, p)
    BY <1>i, <2>1, UnplugPoolInv
  <2>3. /\ pool' = [p EXCEPT !.used = u] /\ Unplug(attached) /\ attached' = {}
        /\ harm' = IF \E h \in Holders : p.idx[h] # None THEN "cleared" ELSE harm
    BY <1>12 DEF RootGone
  <2> HIDE DEF p
  <2>4. /\ p = [used |-> p.used, tgl |-> p.tgl, armed |-> p.armed, idx |-> p.idx, saved |-> p.saved]
        /\ p.tgl \in [HC -> {0, 1}] /\ p.armed \in [HC -> BOOLEAN]
        /\ p.idx \in [Holders -> HC \cup {None}] /\ p.saved \in [Eps -> {None, 0, 1}]
    BY <2>2, PoolFields DEF PoolInv
  <2>5. pool' = [used |-> u, tgl |-> p.tgl, armed |-> p.armed, idx |-> p.idx, saved |-> p.saved]
    BY <2>3, <2>4
  <2>6. harm' = "none" => \A h \in Holders : p.idx[h] = None
    BY <2>3
  <2>7. pool' \in Pool /\ PoolReserved(pool') /\ pool'.idx = p.idx
    BY <2>2, <2>4, <2>5, PoolFields DEF PoolInv, PoolReserved
  <2>8. harm' = "none" => PoolExclusive(pool') /\ PoolBacked(pool')
    BY <2>6, <2>7 DEF PoolExclusive, PoolBacked
  <2>9. PoolInv(harm', pool')
    BY <2>7, <2>8 DEF PoolInv
  <2>10. harm' \in {"none", "cleared", "overwritten"}
    BY <1>i, <2>3
  <2>11. QED
    BY <1>i, <2>3, <2>9, <2>10, UnplugTypes
       DEF IInv, TypeOK, PoolInv, PoolExclusive, PoolBacked, PoolReserved
<1>13. ASSUME NEW e \in Eps, Overwrite(e) PROVE IInv'
  BY <1>i, <1>13 DEF Overwrite, IInv, TypeOK, PoolInv, PoolExclusive, PoolBacked, PoolReserved
<1>14. CASE UNCHANGED vars
  BY <1>i, <1>14, PoolStep DEF vars
<1>15. CASE Next /\ ~UNCHANGED vars
  <2>1. Step
    BY <1>15 DEF Next
  <2>2. QED
    BY <1>1, <1>2, <1>3, <1>4, <1>5, <1>6, <1>7, <1>8, <1>9, <1>10, <1>11, <1>12, <1>13, <2>1 DEF Step
<1>16. QED
  BY <1>14, <1>15

(* The inductive invariant holds in every reachable state. *)
THEOREM Invariance == Spec => []IInv
<1>1. QED
  BY InitInv, StepInv, PTL DEF Spec

(* The pool, the list of endpoint objects and the flags always have their
   types. *)
THEOREM TypeCorrect == Spec => []TypeOK
<1>1. IInv => TypeOK
  BY DEF IInv
<1>2. QED
  BY <1>1, Invariance, PTL

(* However control requests, endpoint transfers, hub unplugs and root
   disconnects interleave, and although the object at the head of the list is
   run after it has been freed, no host channel is programmed by two holders,
   unless the pool has been reset under such an object or its memory has been
   used again. *)
THEOREM ChannelsExclusive == Spec => []Exclusive
<1>1. IInv => Exclusive
  BY DEF IInv, PoolInv, Exclusive
<1>2. QED
  BY <1>1, Invariance, PTL

(* On the same condition no holder, freed or not, keeps the index of a channel
   that is on offer to others. *)
THEOREM ChannelsBacked == Spec => []Backed
<1>1. IInv => Backed
  BY DEF IInv, PoolInv, Backed
<1>2. QED
  BY <1>1, Invariance, PTL

(* Data endpoints, freed ones included, never occupy the two channels kept for
   control pipes; this holds without any condition. *)
THEOREM ChannelsReserved == Spec => []ControlReserved
<1>1. IInv => ControlReserved
  BY DEF IInv, PoolInv, ControlReserved
<1>2. QED
  BY <1>1, Invariance, PTL
----------------------------------------------------------------------------
(* The refinement of VirtualEndpoints. *)

(* What EpToggle and Busy read, of any pool. *)
PoolToggle(p, e) == IF p.idx[e] # None THEN p.tgl[p.idx[e]]
                    ELSE IF p.saved[e] # None THEN p.saved[e] ELSE 0
PoolBusy(p, e) == p.idx[e] # None /\ p.armed[p.idx[e]]
(* q is to every endpoint but those in S what p is. *)
SameFor(p, q, S) ==
  \A e \in Eps \ S : /\ q.idx[e] = p.idx[e] /\ q.saved[e] = p.saved[e]
                     /\ PoolToggle(q, e) = PoolToggle(p, e)
                     /\ PoolBusy(q, e) <=> PoolBusy(p, e)
(* A driver's endpoint without a channel has no error to report. *)
FaultInv == \A e \in live : pool.idx[e] = None => hasError[e] = 0

(* A change of the channel c alone is one for its holders alone. *)
LEMMA OneChannel ==
  ASSUME NEW p \in Pool, NEW q, NEW c, NEW S, q.idx = p.idx, q.saved = p.saved,
         \A b \in HC : b # c => q.tgl[b] = p.tgl[b] /\ q.armed[b] = p.armed[b],
         \A e \in Eps \ S : p.idx[e] # c
  PROVE  SameFor(p, q, S)
<1> SUFFICES ASSUME NEW e \in Eps \ S
             PROVE  /\ PoolToggle(q, e) = PoolToggle(p, e)
                    /\ PoolBusy(q, e) <=> PoolBusy(p, e)
  BY DEF SameFor
<1>1. p.idx[e] # c /\ (p.idx[e] # None => p.idx[e] \in HC)
  BY PoolFields DEF Holders
<1>2. QED
  BY <1>1 DEF PoolToggle, PoolBusy

(* Opening a channel clears its toggle and its transfer, and no one else's:
   it was free. *)
LEMMA OpenToggles ==
  ASSUME NEW p, PoolInv("none", p), NEW h \in Holders, p.idx[h] = None
  PROVE  LET q == OpenChannel(p, h)
         IN /\ SameFor(p, q, {h})
            /\ q.idx[h] # None => q.idx[h] \in HC /\ q.tgl[q.idx[h]] = 0 /\ ~q.armed[q.idx[h]]
<1> DEFINE c == GetFreeChannel(p, h)
           q == OpenChannel(p, h)
<1>1. /\ p = [used |-> p.used, tgl |-> p.tgl, armed |-> p.armed, idx |-> p.idx, saved |-> p.saved]
      /\ p.used \in [HC -> BOOLEAN] /\ p.tgl \in [HC -> {0, 1}] /\ p.armed \in [HC -> BOOLEAN]
      /\ p.idx \in [Holders -> HC \cup {None}] /\ p.saved \in [Eps -> {None, 0, 1}]
  BY PoolFields DEF PoolInv
<1>2. q.saved = p.saved /\ \A g \in Holders \ {h} : q.idx[g] = p.idx[g]
  BY OpenChannelInv
<1>3. CASE c = None
  <2>1. q.tgl = p.tgl /\ q.armed = p.armed /\ q.idx = [p.idx EXCEPT ![h] = None]
    BY <1>1, <1>3 DEF OpenChannel
  <2> HIDE DEF q
  <2>2. q.idx[h] = None
    BY <1>1, <2>1
  <2>3. QED
    BY <1>2, <2>1, <2>2 DEF SameFor, PoolToggle, PoolBusy, Holders, q
<1>4. CASE c # None
  <2>1. c \in HC /\ ~p.used[c]
    BY <1>4, GetFreeChannelResult DEF PoolInv
  <2>2. /\ q.tgl = [p.tgl EXCEPT ![c] = 0] /\ q.armed = [p.armed EXCEPT ![c] = FALSE]
        /\ q.idx = [p.idx EXCEPT ![h] = c]
    BY <1>1, <1>4 DEF OpenChannel, HCInit
  <2> HIDE DEF q, c
  <2>3. q.idx[h] = c /\ q.tgl[c] = 0 /\ ~q.armed[c]
    BY <1>1, <2>1, <2>2
  <2>4. ASSUME NEW e \in Eps \ {h}
        PROVE  PoolToggle(q, e) = PoolToggle(p, e) /\ (PoolBusy(q, e) <=> PoolBusy(p, e))
    <3>1. e \in Holders /\ q.idx[e] = p.idx[e] /\ q.saved[e] = p.saved[e]
      BY <1>2 DEF Holders
    <3>2. CASE p.idx[e] = None
      BY <3>1, <3>2 DEF PoolToggle, PoolBusy
    <3>3. CASE p.idx[e] # None
      <4>1. p.idx[e] \in HC /\ p.used[p.idx[e]]
        BY <1>1, <3>1, <3>3 DEF PoolInv, PoolBacked
      <4>2. q.tgl[p.idx[e]] = p.tgl[p.idx[e]] /\ q.armed[p.idx[e]] = p.armed[p.idx[e]]
        BY <1>1, <2>1, <2>2, <4>1
      <4>3. QED
        BY <3>1, <3>3, <4>2 DEF PoolToggle, PoolBusy
    <3>4. QED
      BY <3>2, <3>3
  <2>5. QED
    BY <1>2, <2>1, <2>3, <2>4 DEF SameFor, Holders, q
<1>5. QED
  BY <1>3, <1>4

LEMMA AllocToggles ==
  ASSUME NEW p, PoolInv("none", p), NEW d \in Devs
  PROVE  SameFor(p, AllocControl(p, d), {})
<1> DEFINE q == OpenIfClosed(p, In(d))
           r == OpenIfClosed(q, Out(d))
<1>1. /\ In(d) \in Holders /\ Out(d) \in Holders
      /\ In(d) \notin Eps /\ Out(d) \notin Eps
  BY DEF Holders, Ctl, Pipes, In, Out
<1>2. PoolInv("none", q) /\ SameFor(p, q, {})
  <2>1. CASE p.idx[In(d)] = None
    BY <1>1, <2>1, OpenToggles, OpenChannelInv DEF OpenIfClosed, SameFor
  <2>2. CASE p.idx[In(d)] # None
    BY <2>2 DEF OpenIfClosed, SameFor
  <2>3. QED
    BY <2>1, <2>2
<1> HIDE DEF q
<1>3. SameFor(q, r, {})
  <2>1. CASE q.idx[Out(d)] = None
    BY <1>1, <1>2, <2>1, OpenToggles DEF OpenIfClosed, SameFor
  <2>2. CASE q.idx[Out(d)] # None
    BY <2>2 DEF OpenIfClosed, SameFor
  <2>3. QED
    BY <2>1, <2>2
<1>4. r = AllocControl(p, d)
  BY DEF AllocControl, q
<1> HIDE DEF r
<1>5. QED
  BY <1>2, <1>3, <1>4 DEF SameFor

(* Freeing a channel leaves the toggle where it is. *)
LEMMA FreeToggles ==
  ASSUME NEW p, PoolInv("none", p), NEW h \in Holders
  PROVE  SameFor(p, FreeChannel(p, h), {h}) /\ FreeChannel(p, h).idx[h] = None
<1> DEFINE q == FreeChannel(p, h)
<1>1. p.idx \in [Holders -> HC \cup {None}]
  BY PoolFields DEF PoolInv
<1>2. q.saved = p.saved /\ q.idx = [p.idx EXCEPT ![h] = None]
  BY FreeChannelInv
<1>3. q.tgl = p.tgl /\ q.armed = p.armed
  BY PoolFields DEF FreeChannel, PoolInv
<1> HIDE DEF q
<1>4. q.idx[h] = None /\ \A e \in Eps \ {h} : q.idx[e] = p.idx[e]
  BY <1>1, <1>2 DEF Holders
<1>5. QED
  BY <1>2, <1>3, <1>4 DEF SameFor, PoolToggle, PoolBusy, q

LEMMA FreeControlToggles ==
  ASSUME NEW p, PoolInv("none", p), NEW d \in Devs
  PROVE  SameFor(p, FreeControl(p, d), {})
<1> DEFINE q == FreeChannel(p, In(d))
           r == FreeChannel(q, Out(d))
<1>1. /\ In(d) \in Holders /\ Out(d) \in Holders
      /\ In(d) \notin Eps /\ Out(d) \notin Eps
  BY DEF Holders, Ctl, Pipes, In, Out
<1>2. PoolInv("none", q) /\ SameFor(p, q, {In(d)})
  BY <1>1, FreeChannelInv, FreeToggles
<1> HIDE DEF q
<1>3. SameFor(q, r, {Out(d)})
  BY <1>1, <1>2, FreeToggles
<1>4. r = FreeControl(p, d)
  BY DEF FreeControl, q
<1> HIDE DEF r
<1>5. QED
  BY <1>1, <1>2, <1>3, <1>4 DEF SameFor

(* Borrowing a channel puts the saved toggle back into it, and no transfer is
   under way on it. *)
LEMMA OpenEpToggles ==
  ASSUME NEW p, PoolInv("none", p), NEW e \in Eps, p.idx[e] = None
  PROVE  LET q == OpenEp(p, e)
         IN /\ SameFor(p, q, {e}) /\ PoolToggle(q, e) = PoolToggle(p, e)
            /\ ~PoolBusy(q, e)
<1> DEFINE q == OpenChannel(p, e)
           r == RestoreToggle(q, e)
<1>1. e \in Holders
  BY DEF Holders
<1>2. /\ PoolInv("none", q) /\ q.saved = p.saved /\ SameFor(p, q, {e})
      /\ q.idx[e] # None => q.idx[e] \in HC /\ q.tgl[q.idx[e]] = 0 /\ ~q.armed[q.idx[e]]
  BY <1>1, OpenChannelInv, OpenToggles
<1> HIDE DEF q
<1>3. OpenEp(p, e) = r
  BY DEF OpenEp, q
<1>4. CASE q.idx[e] = None \/ q.saved[e] = None
  <2>1. r = q
    BY <1>4 DEF RestoreToggle
  <2>2. PoolToggle(q, e) = PoolToggle(p, e) /\ ~PoolBusy(q, e)
    BY <1>2, <1>4 DEF PoolToggle, PoolBusy
  <2>3. QED
    BY <1>2, <1>3, <2>1, <2>2
<1>5. CASE q.idx[e] # None /\ q.saved[e] # None
  <2>1. /\ q.tgl \in [HC -> {0, 1}] /\ q.armed \in [HC -> BOOLEAN]
        /\ q.idx \in [Holders -> HC \cup {None}] /\ q \in Pool
        /\ q = [used |-> q.used, tgl |-> q.tgl, armed |-> q.armed, idx |-> q.idx, saved |-> q.saved]
    BY <1>2, PoolFields DEF PoolInv
  <2>2. /\ r.idx = q.idx /\ r.saved = q.saved /\ r.armed = q.armed
        /\ r.tgl = [q.tgl EXCEPT ![q.idx[e]] = q.saved[e]]
    BY <1>5, <2>1 DEF RestoreToggle
  <2> HIDE DEF r
  <2>3. PoolToggle(r, e) = PoolToggle(p, e) /\ ~PoolBusy(r, e)
    BY <1>2, <1>5, <2>1, <2>2 DEF PoolToggle, PoolBusy
  <2>4. \A f \in Eps \ {e} : q.idx[f] # q.idx[e]
    BY <1>1, <1>2, <1>5 DEF PoolInv, PoolExclusive, Holders
  <2>5. SameFor(q, r, {e})
    <3>1. \A b \in HC : b # q.idx[e] => r.tgl[b] = q.tgl[b] /\ r.armed[b] = q.armed[b]
      BY <2>1, <2>2
    <3>2. QED
      BY ONLY <2>1, <2>2, <2>4, <3>1, OneChannel, ZenonT(60)
  <2>6. QED
    BY <1>2, <1>3, <2>3, <2>5 DEF SameFor
<1>6. QED
  BY <1>4, <1>5

(* Giving it back saves the toggle, repaired after a toggle error. *)
LEMMA FreeEpToggles ==
  ASSUME NEW p, PoolInv("none", p), NEW e \in Eps, p.idx[e] # None, NEW err \in {0, 1, 2}
  PROVE  LET q == FreeEp(p, e, err)
         IN /\ SameFor(p, q, {e}) /\ q.idx[e] = None
            /\ PoolToggle(q, e) = IF err = 2 THEN 1 - PoolToggle(p, e) ELSE PoolToggle(p, e)
<1> DEFINE t == p.tgl[p.idx[e]]
           x == IF err = 2 THEN 1 - t ELSE t
           s == [p.saved EXCEPT ![e] = x]
           q == SaveToggle(p, e, err)
           r == FreeChannel(q, e)
<1>1. /\ p = [used |-> p.used, tgl |-> p.tgl, armed |-> p.armed, idx |-> p.idx, saved |-> p.saved]
      /\ p.tgl \in [HC -> {0, 1}] /\ p.idx \in [Holders -> HC \cup {None}] /\ p.armed \in [HC -> BOOLEAN]
      /\ p.saved \in [Eps -> {None, 0, 1}] /\ e \in Holders
  BY PoolFields DEF PoolInv, Holders
<1>2. t = PoolToggle(p, e) /\ t \in {0, 1} /\ x \in {0, 1}
  BY <1>1 DEF PoolToggle
<1>3. q = [used |-> p.used, tgl |-> p.tgl, armed |-> p.armed, idx |-> p.idx, saved |-> s]
  BY <1>1 DEF SaveToggle
<1> HIDE DEF t, q
<1>4. s \in [Eps -> {None, 0, 1}] /\ s[e] = x /\ \A f \in Eps \ {e} : s[f] = p.saved[f]
  BY <1>1, <1>2
<1> HIDE DEF s, x
<1>5. PoolInv("none", q)
  BY <1>1, <1>3, <1>4, ToggleInv
<1>6. SameFor(p, q, {e}) /\ q.saved[e] = x
  BY <1>3, <1>4 DEF SameFor, PoolToggle, PoolBusy
<1>7. r.saved = q.saved /\ r.idx[e] = None /\ SameFor(q, r, {e})
  BY <1>1, <1>5, FreeChannelInv, FreeToggles
<1>8. FreeEp(p, e, err) = r
  BY DEF FreeEp, q
<1> HIDE DEF r
<1>9. PoolToggle(r, e) = x
  BY <1>2, <1>6, <1>7 DEF PoolToggle, None
<1>10. SameFor(p, r, {e})
  BY <1>6, <1>7 DEF SameFor
<1>11. QED
  BY <1>2, <1>7, <1>8, <1>9, <1>10 DEF x

(* Unplugging leaves every endpoint of another device as it was. *)
LEMMA GoneToggles ==
  ASSUME TypeOK, PoolInv("none", pool), NEW D \in SUBSET Devs
  PROVE  /\ SameFor(pool, UnplugPool(DeInitControl(pool, D), D), EpsOf(D))
         /\ SameFor(pool, DeInitControl(UnplugPool(pool, D), D), EpsOf(D))
<1>1. list \subseteq Eps /\ live \subseteq Eps /\ \A e \in Eps : e \in Holders
  BY DEF TypeOK, Holders
<1>2. LET q == UnplugPool(DeInitControl(pool, D), D)
      IN  /\ q.tgl = pool.tgl /\ q.armed = pool.armed /\ q.saved = pool.saved
          /\ \A e \in Eps \ EpsOf(D) : q.idx[e] = pool.idx[e]
  <2> DEFINE p == DeInitControl(pool, D)
  <2>1. /\ PoolInv("none", p) /\ p.tgl = pool.tgl /\ p.armed = pool.armed /\ p.saved = pool.saved
        /\ \A e \in Eps : p.idx[e] = pool.idx[e]
    BY DeInitInv
  <2> HIDE DEF p
  <2>2. LET q == UnplugPool(p, D)
        IN  /\ q.tgl = p.tgl /\ q.armed = p.armed /\ q.saved = p.saved
            /\ \A h \in Holders : q.idx[h] = IF h \in EpsOf(D) /\ h \in list \cup live
                                             THEN None ELSE p.idx[h]
    BY <1>1, <2>1, UnplugPoolInv
  <2> DEFINE q == UnplugPool(p, D)
  <2> HIDE DEF q
  <2>3. /\ q.tgl = pool.tgl /\ q.armed = pool.armed /\ q.saved = pool.saved
        /\ \A e \in Eps \ EpsOf(D) : q.idx[e] = pool.idx[e]
    BY <1>1, <2>1, <2>2 DEF q
  <2>4. QED
    BY <2>3 DEF p, q
<1>3. LET q == DeInitControl(UnplugPool(pool, D), D)
      IN  /\ q.tgl = pool.tgl /\ q.armed = pool.armed /\ q.saved = pool.saved
          /\ \A e \in Eps \ EpsOf(D) : q.idx[e] = pool.idx[e]
  <2> DEFINE p == UnplugPool(pool, D)
  <2>1. /\ PoolInv("none", p) /\ p.tgl = pool.tgl /\ p.armed = pool.armed /\ p.saved = pool.saved
        /\ \A h \in Holders : p.idx[h] = IF h \in EpsOf(D) /\ h \in list \cup live
                                         THEN None ELSE pool.idx[h]
    BY <1>1, UnplugPoolInv
  <2> HIDE DEF p
  <2>2. LET q == DeInitControl(p, D)
        IN  /\ q.tgl = p.tgl /\ q.armed = p.armed /\ q.saved = p.saved
            /\ \A e \in Eps : q.idx[e] = p.idx[e]
    BY <2>1, DeInitInv
  <2> DEFINE q == DeInitControl(p, D)
  <2> HIDE DEF q
  <2>3. /\ q.tgl = pool.tgl /\ q.armed = pool.armed /\ q.saved = pool.saved
        /\ \A e \in Eps \ EpsOf(D) : q.idx[e] = pool.idx[e]
    BY <1>1, <2>1, <2>2 DEF q
  <2>4. QED
    BY <2>3 DEF p, q
<1>4. QED
  BY <1>2, <1>3 DEF SameFor, PoolToggle, PoolBusy

LEMMA FaultStep == IInv /\ FaultInv /\ [Next]_vars => FaultInv'
<1> SUFFICES ASSUME IInv, FaultInv, [Next]_vars PROVE FaultInv'
  OBVIOUS
<1>1. /\ PoolInv(harm, pool) /\ hasError \in [Eps -> {0, 1, 2}] /\ pool \in Pool
      /\ live \subseteq Eps /\ list \subseteq Eps /\ attached \subseteq Devs
  BY DEF IInv, TypeOK
<1>2. ASSUME hasError' = hasError, live' = live, \A e \in Eps : pool'.idx[e] = pool.idx[e]
      PROVE  FaultInv'
  BY <1>1, <1>2 DEF FaultInv
<1>3. ASSUME NEW d \in Devs, Plug(d) PROVE FaultInv'
  BY <1>2, <1>3 DEF Plug
<1>4. ASSUME NEW d \in Devs, BeginControl(d) PROVE FaultInv'
  <2>1. \A e \in Eps : pool'.idx[e] = pool.idx[e]
    BY <1>1, <1>4, AllocControlInv DEF BeginControl
  <2>2. QED
    BY <1>2, <1>4, <2>1 DEF BeginControl, devVars
<1>5. ASSUME NEW d \in Devs, EndControl(d) PROVE FaultInv'
  <2>1. \A e \in Eps : pool'.idx[e] = pool.idx[e]
    BY <1>1, <1>5, FreeControlInv DEF EndControl
  <2>2. QED
    BY <1>2, <1>5, <2>1 DEF EndControl, devVars
<1>6. ASSUME NEW e \in Eps, NEW d \in Devs, NEW n \in BOOLEAN, NewEp(e, d, n) PROVE FaultInv'
  <2> DEFINE fresh == [pool EXCEPT !.idx   = [@ EXCEPT ![e] = None],
                                   !.saved = [@ EXCEPT ![e] = None]]
  <2>0. PoolInv(harm, fresh)
    BY <1>1, EmptyEpInv
  <2>1. fresh.idx = [pool.idx EXCEPT ![e] = None]
    BY <1>1, EmptyEpInv
  <2>2. pool' = IF n THEN fresh ELSE OpenEp(fresh, e)
    BY <1>6 DEF NewEp
  <2> HIDE DEF fresh
  <2>3. \A f \in Eps \ {e} : fresh.idx[f] = pool.idx[f]
    BY <1>1, <2>1, PoolFields DEF Holders
  <2>4. \A f \in Eps \ {e} : pool'.idx[f] = pool.idx[f]
    <3>1. CASE n
      BY <2>2, <2>3, <3>1
    <3>2. CASE ~n
      <4>1. \A f \in Eps \ {e} : OpenEp(fresh, e).idx[f] = fresh.idx[f]
        BY <2>0, OpenEpInv
      <4>2. QED
        BY <2>2, <2>3, <3>2, <4>1
    <3>3. QED
      BY <3>1, <3>2
  <2>5. hasError' = [hasError EXCEPT ![e] = 0] /\ live' = live \cup {e}
    BY <1>6 DEF NewEp
  <2>6. QED
    BY <1>1, <2>4, <2>5 DEF FaultInv
<1>7. ASSUME NEW e \in Eps, Request(e) PROVE FaultInv'
  <2>1. \A f \in Eps \ {e} : pool'.idx[f] = pool.idx[f] /\ hasError'[f] = hasError[f]
    BY <1>1, <1>7, OpenEpInv DEF Request
  <2>2. e \in live /\ pool'.idx[e] = None => hasError'[e] = 0
    BY <1>1, <1>7 DEF Request, OpenEp, FaultInv
  <2>3. QED
    BY <1>1, <1>7, <2>1, <2>2 DEF FaultInv, Request, devVars
<1>8. ASSUME NEW h \in Holders, NEW flip \in BOOLEAN, Submit(h, flip) PROVE FaultInv'
  BY <1>1, <1>2, <1>8 DEF Submit, Pool, devVars
<1>9. ASSUME NEW c \in HC, Interrupt(c) PROVE FaultInv'
  BY <1>1, <1>2, <1>9 DEF Interrupt, Pool, devVars
<1>10. ASSUME NEW e \in Eps, NEW err \in {1, 2}, TransferError(e, err) PROVE FaultInv'
  BY <1>1, <1>10 DEF TransferError, FaultInv, devVars
<1>11. ASSUME NEW e \in Eps, Finalize(e) PROVE FaultInv'
  <2> DEFINE err == hasError[e]
             q == FreeEp(pool, e, err)
  <2>1. err \in {0, 1, 2} /\ pool' = q
    BY <1>1, <1>11 DEF Finalize
  <2> HIDE DEF err
  <2>2. PoolInv(harm, pool)
    BY <1>1
  <2>3. pool'.idx = [pool.idx EXCEPT ![e] = None]
    BY <2>1, <2>2, FreeEpInv
  <2>4. \A f \in Eps \ {e} : pool'.idx[f] = pool.idx[f]
    BY <1>1, <2>3, PoolFields DEF Holders
  <2>5. QED
    BY <1>1, <1>11, <2>4 DEF Finalize, FaultInv, devVars
<1>12. ASSUME NEW D \in SUBSET Devs, Unplug(D),
              \A e \in Eps \ EpsOf(D) : pool'.idx[e] = pool.idx[e]
       PROVE  FaultInv'
  BY <1>1, <1>12 DEF Unplug, FaultInv
<1>13. ASSUME NEW D \in SUBSET Devs
       PROVE  /\ \A e \in Eps \ EpsOf(D) :
                   UnplugPool(DeInitControl(pool, D), D).idx[e] = pool.idx[e]
              /\ \A e \in Eps \ EpsOf(D) :
                   DeInitControl(UnplugPool(pool, D), D).idx[e] = pool.idx[e]
  <2> DEFINE p == DeInitControl(pool, D)
             q == UnplugPool(pool, D)
  <2>1. \A e \in Eps : e \in Holders
    BY DEF Holders
  <2>2. PoolInv(harm, p) /\ \A e \in Eps : p.idx[e] = pool.idx[e]
    BY <1>1, DeInitInv
  <2>3. PoolInv(harm, q) /\ \A e \in Eps \ EpsOf(D) : q.idx[e] = pool.idx[e]
    BY <1>1, <2>1, UnplugPoolInv
  <2> HIDE DEF p, q
  <2>4. \A e \in Eps \ EpsOf(D) : UnplugPool(p, D).idx[e] = p.idx[e]
    BY <1>1, <2>1, <2>2, UnplugPoolInv
  <2>5. \A e \in Eps : DeInitControl(q, D).idx[e] = q.idx[e]
    BY <2>3, DeInitInv
  <2>6. QED
    BY <2>2, <2>3, <2>4, <2>5 DEF p, q
<1>14. ASSUME NEW d \in Devs, DeviceGone(d) PROVE FaultInv'
  <2> DEFINE D == Subtree[d]
  <2>1. D \in SUBSET Devs /\ pool' = UnplugPool(DeInitControl(pool, D), D) /\ Unplug(D)
    BY <1>14 DEF DeviceGone
  <2> HIDE DEF D
  <2>2. QED
    BY <1>12, <1>13, <2>1
<1>15. ASSUME NEW d \in Devs, ErrorState(d) PROVE FaultInv'
  <2> DEFINE D == Subtree[d]
  <2>1. D \in SUBSET Devs /\ pool' = DeInitControl(UnplugPool(pool, D), D) /\ Unplug(D)
    BY <1>15 DEF ErrorState
  <2> HIDE DEF D
  <2>2. QED
    BY <1>12, <1>13, <2>1
<1>16. CASE RootGone
  <2> DEFINE p == UnplugPool(DeInitControl(pool, attached), attached)
             u == [c \in HC |-> FALSE]
  <2>1. pool' = [p EXCEPT !.used = u] /\ Unplug(attached)
    BY <1>16 DEF RootGone
  <2>2. \A e \in Eps \ EpsOf(attached) : p.idx[e] = pool.idx[e]
    BY <1>1, <1>13
  <2>3. p \in Pool
    <3>1. PoolInv(harm, DeInitControl(pool, attached))
      BY <1>1, DeInitInv
    <3>2. QED
      BY <1>1, <3>1, UnplugPoolInv DEF PoolInv
  <2> HIDE DEF p, u
  <2>4. pool'.idx = p.idx
    BY <2>1, <2>3 DEF Pool
  <2>5. QED
    BY <1>1, <1>12, <2>1, <2>2, <2>4
<1>17. ASSUME NEW e \in Eps, Overwrite(e) PROVE FaultInv'
  BY <1>2, <1>17 DEF Overwrite
<1>18. CASE UNCHANGED vars
  BY <1>2, <1>18 DEF vars, devVars
<1>19. CASE Next /\ ~UNCHANGED vars
  <2>1. Step
    BY <1>19 DEF Next
  <2>2. QED
    BY <1>3, <1>4, <1>5, <1>6, <1>7, <1>8, <1>9, <1>10, <1>11, <1>14, <1>15, <1>16, <1>17, <2>1 DEF Step
<1>20. QED
  BY <1>18, <1>19

(* The values that the refinement gives VirtualEndpoints, endpoint by
   endpoint. *)
VirtualOK ==
  /\ VAlive \in [Eps -> BOOLEAN] /\ VLent \in [Eps -> BOOLEAN] /\ VBusy \in [Eps -> BOOLEAN]
  /\ VFault \in [Eps -> BOOLEAN] /\ VToggle = [e \in Eps |-> VToggle[e]]
  /\ \A e \in Eps : /\ VAlive[e] <=> e \in live
                    /\ VLent[e] <=> e \in live /\ pool.idx[e] # None
                    /\ VBusy[e] <=> e \in live /\ PoolBusy(pool, e)
                    /\ VFault[e] <=> e \in live /\ hasError[e] = 2
                    /\ VToggle[e] = IF e \in live THEN PoolToggle(pool, e) ELSE 0

LEMMA VirtualValues == VirtualOK
<1>1. /\ VAlive \in [Eps -> BOOLEAN] /\ VLent \in [Eps -> BOOLEAN] /\ VBusy \in [Eps -> BOOLEAN]
      /\ VFault \in [Eps -> BOOLEAN] /\ VToggle = [e \in Eps |-> VToggle[e]]
  BY DEF VAlive, VLent, VBusy, VFault, VToggle, Lent, Busy, Fault
<1>2. \A e \in Eps : /\ VAlive[e] <=> e \in live
                     /\ VLent[e] <=> e \in live /\ pool.idx[e] # None
                     /\ VBusy[e] <=> e \in live /\ PoolBusy(pool, e)
                     /\ VFault[e] <=> e \in live /\ hasError[e] = 2
  BY DEF VAlive, VLent, VBusy, VFault, Lent, Busy, Fault, PoolBusy
<1>3. \A e \in Eps : VToggle[e] = IF e \in live THEN PoolToggle(pool, e) ELSE 0
  BY DEF VToggle, EpToggle, PoolToggle
<1>4. QED
  BY <1>1, <1>2, <1>3 DEF VirtualOK

LEMMA VirtualValuesNext == VirtualOK'
BY VirtualValues, PTL

(* One function that changes at e at most. *)
LEMMA BoolOne ==
  ASSUME NEW F \in [Eps -> BOOLEAN], NEW G \in [Eps -> BOOLEAN], NEW e \in Eps,
         \A f \in Eps \ {e} : G[f] <=> F[f]
  PROVE  G = [F EXCEPT ![e] = G[e]] /\ ((G[e] <=> F[e]) => G = F)
OBVIOUS

LEMMA ValueOne ==
  ASSUME NEW F, NEW G, F = [f \in Eps |-> F[f]], G = [f \in Eps |-> G[f]], NEW e \in Eps,
         \A f \in Eps \ {e} : G[f] = F[f]
  PROVE  G = [F EXCEPT ![e] = G[e]] /\ (G[e] = F[e] => G = F)
OBVIOUS

(* A step that nobody but e can notice. *)
LEMMA VirtualOne ==
  ASSUME NEW e \in Eps, SameFor(pool, pool', {e}),
         \A f \in Eps \ {e} : (f \in live' <=> f \in live) /\ (f \in live => hasError'[f] = hasError[f])
  PROVE  /\ VAlive' = [VAlive EXCEPT ![e] = VAlive'[e]] /\ ((VAlive'[e] <=> VAlive[e]) => VAlive' = VAlive)
         /\ VLent' = [VLent EXCEPT ![e] = VLent'[e]] /\ ((VLent'[e] <=> VLent[e]) => VLent' = VLent)
         /\ VBusy' = [VBusy EXCEPT ![e] = VBusy'[e]] /\ ((VBusy'[e] <=> VBusy[e]) => VBusy' = VBusy)
         /\ VFault' = [VFault EXCEPT ![e] = VFault'[e]] /\ ((VFault'[e] <=> VFault[e]) => VFault' = VFault)
         /\ VToggle' = [VToggle EXCEPT ![e] = VToggle'[e]] /\ (VToggle'[e] = VToggle[e] => VToggle' = VToggle)
<1>1. VirtualOK /\ VirtualOK'
  BY VirtualValues, VirtualValuesNext
<1>2. \A f \in Eps \ {e} : /\ VAlive'[f] <=> VAlive[f]
                           /\ VLent'[f] <=> VLent[f]
                           /\ VBusy'[f] <=> VBusy[f]
                           /\ VFault'[f] <=> VFault[f]
                           /\ VToggle'[f] = VToggle[f]
  BY <1>1 DEF VirtualOK, SameFor
<1>3. /\ VAlive \in [Eps -> BOOLEAN] /\ VLent \in [Eps -> BOOLEAN] /\ VBusy \in [Eps -> BOOLEAN]
      /\ VFault \in [Eps -> BOOLEAN] /\ VToggle = [f \in Eps |-> VToggle[f]]
      /\ VAlive' \in [Eps -> BOOLEAN] /\ VLent' \in [Eps -> BOOLEAN] /\ VBusy' \in [Eps -> BOOLEAN]
      /\ VFault' \in [Eps -> BOOLEAN] /\ VToggle' = [f \in Eps |-> VToggle'[f]]
  BY <1>1 DEF VirtualOK
<1>4. VAlive' = [VAlive EXCEPT ![e] = VAlive'[e]] /\ ((VAlive'[e] <=> VAlive[e]) => VAlive' = VAlive)
  BY <1>2, <1>3, BoolOne
<1>5. VLent' = [VLent EXCEPT ![e] = VLent'[e]] /\ ((VLent'[e] <=> VLent[e]) => VLent' = VLent)
  BY <1>2, <1>3, BoolOne
<1>6. VBusy' = [VBusy EXCEPT ![e] = VBusy'[e]] /\ ((VBusy'[e] <=> VBusy[e]) => VBusy' = VBusy)
  BY <1>2, <1>3, BoolOne
<1>7. VFault' = [VFault EXCEPT ![e] = VFault'[e]] /\ ((VFault'[e] <=> VFault[e]) => VFault' = VFault)
  BY <1>2, <1>3, BoolOne
<1>8. VToggle' = [VToggle EXCEPT ![e] = VToggle'[e]] /\ (VToggle'[e] = VToggle[e] => VToggle' = VToggle)
  BY <1>2, <1>3, ValueOne
<1>9. QED
  BY <1>4, <1>5, <1>6, <1>7, <1>8

(* A step that no driver's endpoint can notice. *)
LEMMA VirtualStutter ==
  ASSUME NEW S, SameFor(pool, pool', S), S \cap live = {}, live' = live, live \subseteq Eps,
         \A f \in live : hasError'[f] = hasError[f]
  PROVE  /\ VAlive' = VAlive /\ VLent' = VLent /\ VBusy' = VBusy
         /\ VFault' = VFault /\ VToggle' = VToggle
<1>1. VirtualOK /\ VirtualOK'
  BY VirtualValues, VirtualValuesNext
<1>2. \A f \in Eps : /\ VAlive'[f] <=> VAlive[f]
                     /\ VLent'[f] <=> VLent[f]
                     /\ VBusy'[f] <=> VBusy[f]
                     /\ VFault'[f] <=> VFault[f]
                     /\ VToggle'[f] = VToggle[f]
  BY <1>1 DEF VirtualOK, SameFor
<1>3. QED
  BY <1>1, <1>2 DEF VirtualOK

(* The endpoints in S go, and nobody else notices. *)
LEMMA VirtualDetach ==
  ASSUME NEW S \in SUBSET Eps, SameFor(pool, pool', S), live' = live \ S,
         \A e \in Eps \ S : hasError'[e] = hasError[e]
  PROVE  Virtual!Detach(S)
<1>1. VirtualOK /\ VirtualOK'
  BY VirtualValues, VirtualValuesNext
<1>2. \A f \in Eps : /\ VAlive'[f] <=> VAlive[f] /\ f \notin S
                     /\ VLent'[f] <=> VLent[f] /\ f \notin S
                     /\ VBusy'[f] <=> VBusy[f] /\ f \notin S
                     /\ VFault'[f] <=> VFault[f] /\ f \notin S
                     /\ VToggle'[f] = IF f \in S THEN 0 ELSE VToggle[f]
  BY <1>1 DEF VirtualOK, SameFor
<1>3. QED
  BY <1>1, <1>2 DEF VirtualOK, Virtual!Detach

(* Submitting and ending a transfer touch one channel, and so one endpoint. *)
LEMMA TransferToggles ==
  ASSUME PoolInv("none", pool), NEW h \in Holders, NEW x \in {0, 1}, NEW b \in BOOLEAN,
         pool.idx[h] # None,
         pool' = [pool EXCEPT !.tgl[pool.idx[h]] = x, !.armed[pool.idx[h]] = b]
  PROVE  /\ SameFor(pool, pool', {h}) /\ pool'.idx = pool.idx
         /\ PoolToggle(pool', h) = x /\ (PoolBusy(pool', h) <=> b)
<1> DEFINE c == pool.idx[h]
<1>1. /\ pool.tgl \in [HC -> {0, 1}] /\ pool.armed \in [HC -> BOOLEAN] /\ c \in HC /\ pool \in Pool
  BY PoolFields DEF PoolInv
<1>2. \A e \in Eps \ {h} : pool.idx[e] # c
  BY DEF PoolInv, PoolExclusive, Holders
<1>3. pool' = [pool EXCEPT !.tgl[c] = x, !.armed[c] = b] /\ c # None
  OBVIOUS
<1> HIDE DEF c
<1>4. /\ pool'.idx = pool.idx /\ pool'.saved = pool.saved
      /\ pool'.tgl = [pool.tgl EXCEPT ![c] = x] /\ pool'.armed = [pool.armed EXCEPT ![c] = b]
  <2>1. pool = [used |-> pool.used, tgl |-> pool.tgl, armed |-> pool.armed, idx |-> pool.idx,
                saved |-> pool.saved]
    BY <1>1, PoolFields
  <2>2. pool' = [used |-> pool.used, tgl |-> [pool.tgl EXCEPT ![c] = x],
                 armed |-> [pool.armed EXCEPT ![c] = b], idx |-> pool.idx, saved |-> pool.saved]
    BY <1>3, <2>1
  <2>3. QED
    BY ONLY <2>2
<1>5. SameFor(pool, pool', {h})
  <2>1. \A a \in HC : a # c => pool'.tgl[a] = pool.tgl[a] /\ pool'.armed[a] = pool.armed[a]
    BY <1>1, <1>4
  <2>2. pool'.idx = pool.idx /\ pool'.saved = pool.saved /\ pool \in Pool
    BY <1>1, <1>4
  <2>3. QED
    BY ONLY <1>2, <2>1, <2>2, OneChannel
<1>6. pool'.tgl[c] = x /\ (pool'.armed[c] <=> b)
  BY <1>1, <1>4
<1>7. QED
  BY <1>3, <1>4, <1>5, <1>6 DEF PoolToggle, PoolBusy, c

(* While nothing is broken every step is a step of VirtualEndpoints, or none
   that an endpoint notices. *)
LEMMA VirtualUnbroken ==
  ASSUME IInv, FaultInv, Step, harm = "none", harm' = "none"
  PROVE  Virtual!VStep \/ UNCHANGED Virtual!evars
<1>1. /\ TypeOK /\ PoolInv("none", pool) /\ pool \in Pool /\ hasError \in [Eps -> {0, 1, 2}]
      /\ live \subseteq Eps /\ list \subseteq Eps /\ attached \subseteq Devs
  BY DEF IInv, TypeOK
<1>p. /\ pool.tgl \in [HC -> {0, 1}] /\ pool.armed \in [HC -> BOOLEAN]
      /\ pool.idx \in [Holders -> HC \cup {None}] /\ pool.saved \in [Eps -> {None, 0, 1}]
      /\ \A e \in Eps : e \in Holders
  BY <1>1, PoolFields DEF Holders
<1>v. VirtualOK /\ VirtualOK'
  BY VirtualValues, VirtualValuesNext
<1>s. ASSUME NEW S, SameFor(pool, pool', S), S \cap live = {}, live' = live,
             \A f \in live : hasError'[f] = hasError[f]
      PROVE  UNCHANGED Virtual!evars
  BY <1>1, <1>s, VirtualStutter DEF Virtual!evars
<1>2. ASSUME NEW d \in Devs, Plug(d) PROVE UNCHANGED Virtual!evars
  <2>1. SameFor(pool, pool', {}) /\ live' = live /\ hasError' = hasError
    BY <1>2 DEF Plug, SameFor
  <2>2. QED
    BY <1>s, <2>1
<1>3. ASSUME NEW d \in Devs, BeginControl(d) PROVE UNCHANGED Virtual!evars
  <2>1. SameFor(pool, pool', {}) /\ live' = live /\ hasError' = hasError
    BY <1>1, <1>3, AllocToggles DEF BeginControl, devVars
  <2>2. QED
    BY <1>s, <2>1
<1>4. ASSUME NEW d \in Devs, EndControl(d) PROVE UNCHANGED Virtual!evars
  <2>1. SameFor(pool, pool', {}) /\ live' = live /\ hasError' = hasError
    BY <1>1, <1>4, FreeControlToggles DEF EndControl, devVars
  <2>2. QED
    BY <1>s, <2>1
<1>5. ASSUME NEW e \in Eps, NEW d \in Devs, NEW n \in BOOLEAN, NewEp(e, d, n)
      PROVE  \E b \in BOOLEAN : Virtual!Attach(e, b)
  <2> DEFINE fresh == [pool EXCEPT !.idx   = [@ EXCEPT ![e] = None],
                                   !.saved = [@ EXCEPT ![e] = None]]
  <2>1. PoolInv("none", fresh)
    BY <1>1, EmptyEpInv
  <2>2. /\ fresh.idx = [pool.idx EXCEPT ![e] = None] /\ fresh.saved = [pool.saved EXCEPT ![e] = None]
        /\ fresh.tgl = pool.tgl /\ fresh.armed = pool.armed
    BY <1>1, EmptyEpInv
  <2>3. pool' = IF n THEN fresh ELSE OpenEp(fresh, e)
    BY <1>5 DEF NewEp
  <2> HIDE DEF fresh
  <2>4. fresh.idx[e] = None /\ fresh.saved[e] = None
    BY <1>p, <2>2
  <2>5. SameFor(pool, fresh, {e}) /\ PoolToggle(fresh, e) = 0 /\ ~PoolBusy(fresh, e)
    BY <1>p, <2>2, <2>4 DEF SameFor, PoolToggle, PoolBusy
  <2>6. SameFor(fresh, pool', {e}) /\ PoolToggle(pool', e) = 0 /\ ~PoolBusy(pool', e)
    <3>1. CASE n
      BY <2>3, <2>5, <3>1 DEF SameFor
    <3>2. CASE ~n
      BY <2>1, <2>3, <2>4, <2>5, <3>2, OpenEpToggles
    <3>3. QED
      BY <3>1, <3>2
  <2>7. SameFor(pool, pool', {e})
    BY <2>5, <2>6 DEF SameFor
  <2>8. /\ e \notin live /\ live' = live \cup {e} /\ hasError' = [hasError EXCEPT ![e] = 0]
        /\ hasError'[e] = 0
    BY <1>1, <1>5 DEF NewEp
  <2>9. /\ VAlive' = [VAlive EXCEPT ![e] = VAlive'[e]]
        /\ VLent' = [VLent EXCEPT ![e] = VLent'[e]]
        /\ ((VBusy'[e] <=> VBusy[e]) => VBusy' = VBusy)
        /\ ((VFault'[e] <=> VFault[e]) => VFault' = VFault)
        /\ (VToggle'[e] = VToggle[e] => VToggle' = VToggle)
    BY <1>1, <2>7, <2>8, VirtualOne
  <2>10. /\ ~VAlive[e] /\ VAlive'[e] = TRUE /\ ~VBusy[e] /\ ~VBusy'[e] /\ ~VFault[e] /\ ~VFault'[e]
         /\ VToggle[e] = 0 /\ VToggle'[e] = 0 /\ VLent'[e] \in BOOLEAN
    BY <1>v, <2>6, <2>8 DEF VirtualOK
  <2>11. Virtual!Attach(e, VLent'[e])
    BY <2>9, <2>10 DEF Virtual!Attach
  <2>12. QED
    BY <2>10, <2>11
<1>6. ASSUME NEW e \in Eps, Request(e) PROVE Virtual!Borrow(e) \/ UNCHANGED Virtual!evars
  <2>1. /\ pool' = OpenEp(pool, e) /\ live' = live
        /\ hasError' = IF pool.idx[e] = None /\ pool'.idx[e] # None
                       THEN [hasError EXCEPT ![e] = 0] ELSE hasError
    BY <1>6 DEF Request, devVars
  <2>2. \A f \in Eps \ {e} : hasError'[f] = hasError[f]
    BY <1>1, <2>1
  <2>3. CASE pool.idx[e] # None
    <3>1. SameFor(pool, pool', {}) /\ hasError' = hasError
      BY <2>1, <2>3 DEF OpenEp, SameFor
    <3>2. QED
      BY <1>s, <2>1, <3>1
  <2>4. CASE pool.idx[e] = None
    <3>1. SameFor(pool, pool', {e}) /\ PoolToggle(pool', e) = PoolToggle(pool, e) /\ ~PoolBusy(pool', e)
      BY <1>1, <2>1, <2>4, OpenEpToggles
    <3>2. CASE e \notin live
      <4>1. {e} \cap live = {} /\ \A f \in live : hasError'[f] = hasError[f]
        BY <1>1, <2>2, <3>2
      <4>2. QED
        BY <1>s, <2>1, <3>1, <4>1
    <3>3. CASE e \in live
      <4>1. hasError[e] = 0 /\ hasError'[e] = 0
        BY <1>1, <2>1, <2>4, <3>3 DEF FaultInv
      <4>2. /\ ((VAlive'[e] <=> VAlive[e]) => VAlive' = VAlive)
            /\ VLent' = [VLent EXCEPT ![e] = VLent'[e]] /\ ((VLent'[e] <=> VLent[e]) => VLent' = VLent)
            /\ ((VBusy'[e] <=> VBusy[e]) => VBusy' = VBusy)
            /\ ((VFault'[e] <=> VFault[e]) => VFault' = VFault)
            /\ (VToggle'[e] = VToggle[e] => VToggle' = VToggle)
        BY <2>1, <2>2, <3>1, VirtualOne
      <4>3. /\ VAlive[e] /\ VAlive'[e] /\ ~VBusy[e] /\ ~VBusy'[e] /\ ~VFault[e] /\ ~VFault'[e]
            /\ ~VLent[e] /\ VToggle[e] = VToggle'[e] /\ VLent'[e] \in BOOLEAN
        BY <1>v, <2>1, <2>4, <3>1, <3>3, <4>1 DEF VirtualOK, PoolBusy
      <4>4. CASE VLent'[e]
        <5>1. VLent' = [VLent EXCEPT ![e] = TRUE]
          BY <4>2, <4>3, <4>4
        <5>2. QED
          BY <4>2, <4>3, <5>1 DEF Virtual!Borrow
      <4>5. CASE ~VLent'[e]
        BY <4>2, <4>3, <4>5 DEF Virtual!evars
      <4>6. QED
        BY <4>4, <4>5
    <3>4. QED
      BY <3>2, <3>3
  <2>5. QED
    BY <2>3, <2>4
<1>7. ASSUME NEW h \in Holders, NEW flip \in BOOLEAN, Submit(h, flip)
      PROVE  (h \in Eps /\ Virtual!Start(h, flip)) \/ UNCHANGED Virtual!evars
  <2> DEFINE x == IF flip THEN 1 - pool.tgl[pool.idx[h]] ELSE pool.tgl[pool.idx[h]]
  <2>1. /\ pool.idx[h] # None /\ pool.idx[h] \in HC /\ x \in {0, 1} /\ TRUE \in BOOLEAN
        /\ pool' = [pool EXCEPT !.tgl[pool.idx[h]] = x, !.armed[pool.idx[h]] = TRUE]
        /\ live' = live /\ hasError' = hasError
    BY <1>p, <1>7 DEF Submit, devVars
  <2>2. x = IF flip THEN 1 - PoolToggle(pool, h) ELSE PoolToggle(pool, h)
    BY <2>1 DEF PoolToggle
  <2> HIDE DEF x
  <2>3. /\ SameFor(pool, pool', {h}) /\ pool'.idx = pool.idx
        /\ PoolToggle(pool', h) = x /\ PoolBusy(pool', h)
    BY <1>1, <2>1, TransferToggles
  <2>4. CASE h \notin live
    <3>1. {h} \cap live = {}
      BY <2>4
    <3>2. QED
      BY <1>s, <2>1, <2>3, <3>1
  <2>5. CASE h \in live
    <3>1. h \in Eps
      BY <1>1, <2>5
    <3>2. /\ ((VAlive'[h] <=> VAlive[h]) => VAlive' = VAlive)
          /\ ((VLent'[h] <=> VLent[h]) => VLent' = VLent)
          /\ VBusy' = [VBusy EXCEPT ![h] = VBusy'[h]]
          /\ ((VFault'[h] <=> VFault[h]) => VFault' = VFault)
          /\ VToggle' = [VToggle EXCEPT ![h] = VToggle'[h]]
      BY <2>1, <2>3, <3>1, VirtualOne
    <3>3. /\ VAlive[h] /\ VAlive'[h] /\ VLent[h] /\ VLent'[h] /\ (VFault'[h] <=> VFault[h])
          /\ VBusy'[h] = TRUE /\ VToggle'[h] = IF flip THEN 1 - VToggle[h] ELSE VToggle[h]
      BY <1>v, <2>1, <2>2, <2>3, <2>5, <3>1 DEF VirtualOK
    <3>4. Virtual!Start(h, flip)
      BY <3>2, <3>3 DEF Virtual!Start
    <3>5. QED
      BY <3>1, <3>4
  <2>6. QED
    BY <2>4, <2>5
<1>8. ASSUME NEW c \in HC, Interrupt(c)
      PROVE  (\E e \in Eps : Virtual!End(e)) \/ UNCHANGED Virtual!evars
  <2> DEFINE x == 1 - pool.tgl[c]
  <2>1. /\ x \in {0, 1} /\ FALSE \in BOOLEAN /\ pool.armed[c]
        /\ pool' = [pool EXCEPT !.tgl[c] = x, !.armed[c] = FALSE]
        /\ live' = live /\ hasError' = hasError
    BY <1>p, <1>8 DEF Interrupt, devVars
  <2>2. CASE \E e \in live : pool.idx[e] = c
    <3>1. PICK e \in live : pool.idx[e] = c
      BY <2>2
    <3>2. e \in Eps /\ e \in Holders /\ pool.idx[e] # None
      BY <1>1, <1>p, <3>1 DEF HC, None
    <3>3. x = 1 - PoolToggle(pool, e) /\ PoolBusy(pool, e)
      BY <2>1, <3>1, <3>2 DEF PoolToggle, PoolBusy
    <3>4. pool' = [pool EXCEPT !.tgl[pool.idx[e]] = x, !.armed[pool.idx[e]] = FALSE]
      BY <2>1, <3>1
    <3> HIDE DEF x
    <3>5. /\ SameFor(pool, pool', {e}) /\ pool'.idx = pool.idx
          /\ PoolToggle(pool', e) = x /\ ~PoolBusy(pool', e)
      BY <1>1, <2>1, <3>2, <3>4, TransferToggles
    <3>6. /\ ((VAlive'[e] <=> VAlive[e]) => VAlive' = VAlive)
          /\ ((VLent'[e] <=> VLent[e]) => VLent' = VLent)
          /\ VBusy' = [VBusy EXCEPT ![e] = VBusy'[e]]
          /\ ((VFault'[e] <=> VFault[e]) => VFault' = VFault)
          /\ VToggle' = [VToggle EXCEPT ![e] = VToggle'[e]]
      BY <2>1, <3>2, <3>5, VirtualOne
    <3>7. /\ VAlive[e] /\ VAlive'[e] /\ VLent[e] /\ VLent'[e] /\ (VFault'[e] <=> VFault[e])
          /\ VBusy[e] /\ VBusy'[e] = FALSE /\ VToggle'[e] = 1 - VToggle[e]
      BY <1>v, <2>1, <3>1, <3>2, <3>3, <3>5 DEF VirtualOK
    <3>8. Virtual!End(e)
      BY <3>6, <3>7 DEF Virtual!End
    <3>9. QED
      BY <3>2, <3>8
  <2>3. CASE \A e \in live : pool.idx[e] # c
    <3> DEFINE S == Eps \ live
    <3> HIDE DEF x
    <3>1. /\ pool'.idx = pool.idx /\ pool'.saved = pool.saved
          /\ pool'.tgl = [pool.tgl EXCEPT ![c] = x] /\ pool'.armed = [pool.armed EXCEPT ![c] = FALSE]
      BY <1>1, <2>1, PoolFields
    <3>2. \A a \in HC : a # c => pool'.tgl[a] = pool.tgl[a] /\ pool'.armed[a] = pool.armed[a]
      BY <1>p, <3>1
    <3>3. (\A e \in Eps \ S : pool.idx[e] # c) /\ S \cap live = {}
      BY <2>3
    <3> HIDE DEF S
    <3>4. SameFor(pool, pool', S)
      BY <1>1, <3>1, <3>2, <3>3, OneChannel
    <3>5. QED
      BY <1>s, <2>1, <3>3, <3>4
  <2>4. QED
    BY <2>2, <2>3
<1>9. ASSUME NEW e \in Eps, NEW err \in {1, 2}, TransferError(e, err)
      PROVE  (\E b \in BOOLEAN : Virtual!Report(e, b)) \/ UNCHANGED Virtual!evars
  <2>1. /\ pool.idx[e] # None /\ pool' = pool /\ live' = live
        /\ hasError' = [hasError EXCEPT ![e] = err] /\ hasError'[e] = err
        /\ \A f \in Eps \ {e} : hasError'[f] = hasError[f]
    BY <1>1, <1>9 DEF TransferError, devVars
  <2>2. SameFor(pool, pool', {e})
    BY <2>1 DEF SameFor
  <2>3. CASE e \notin live
    <3>1. {e} \cap live = {} /\ \A f \in live : hasError'[f] = hasError[f]
      BY <1>1, <2>1, <2>3
    <3>2. QED
      BY <1>s, <2>1, <2>2, <3>1
  <2>4. CASE e \in live
    <3>1. /\ ((VAlive'[e] <=> VAlive[e]) => VAlive' = VAlive)
          /\ ((VLent'[e] <=> VLent[e]) => VLent' = VLent)
          /\ ((VBusy'[e] <=> VBusy[e]) => VBusy' = VBusy)
          /\ VFault' = [VFault EXCEPT ![e] = VFault'[e]]
          /\ (VToggle'[e] = VToggle[e] => VToggle' = VToggle)
      BY <2>1, <2>2, VirtualOne
    <3>2. /\ VAlive[e] /\ VAlive'[e] /\ VLent[e] /\ VLent'[e] /\ (VBusy'[e] <=> VBusy[e])
          /\ VToggle'[e] = VToggle[e] /\ VFault'[e] \in BOOLEAN
      BY <1>v, <2>1, <2>4 DEF VirtualOK
    <3>3. Virtual!Report(e, VFault'[e])
      BY <3>1, <3>2 DEF Virtual!Report
    <3>4. QED
      BY <3>2, <3>3
  <2>5. QED
    BY <2>3, <2>4
<1>10. ASSUME NEW e \in Eps, Finalize(e) PROVE Virtual!Return(e) \/ UNCHANGED Virtual!evars
  <2> DEFINE err == hasError[e]
  <2>1. /\ err \in {0, 1, 2} /\ pool' = FreeEp(pool, e, err) /\ pool.idx[e] # None
        /\ live' = live /\ hasError' = [hasError EXCEPT ![e] = 0] /\ hasError'[e] = 0
        /\ \A f \in Eps \ {e} : hasError'[f] = hasError[f]
    BY <1>1, <1>10 DEF Finalize, devVars
  <2>2. /\ SameFor(pool, pool', {e}) /\ pool'.idx[e] = None
        /\ PoolToggle(pool', e) = IF err = 2 THEN 1 - PoolToggle(pool, e) ELSE PoolToggle(pool, e)
    <3> HIDE DEF err
    <3>1. QED
      BY <1>1, <2>1, FreeEpToggles
  <2>3. CASE e \notin live
    <3>1. {e} \cap live = {} /\ \A f \in live : hasError'[f] = hasError[f]
      BY <1>1, <2>1, <2>3
    <3>2. QED
      BY <1>s, <2>1, <2>2, <3>1
  <2>4. CASE e \in live
    <3>1. /\ ((VAlive'[e] <=> VAlive[e]) => VAlive' = VAlive)
          /\ VLent' = [VLent EXCEPT ![e] = VLent'[e]]
          /\ VBusy' = [VBusy EXCEPT ![e] = VBusy'[e]]
          /\ VFault' = [VFault EXCEPT ![e] = VFault'[e]]
          /\ VToggle' = [VToggle EXCEPT ![e] = VToggle'[e]]
      BY <2>1, <2>2, VirtualOne
    <3>2. /\ VAlive[e] /\ VAlive'[e] /\ VLent[e] /\ VLent'[e] = FALSE /\ VBusy'[e] = FALSE
          /\ VFault'[e] = FALSE
          /\ VToggle'[e] = IF VFault[e] THEN 1 - VToggle[e] ELSE VToggle[e]
      BY <1>v, <2>1, <2>2, <2>4 DEF VirtualOK, PoolBusy
    <3>3. Virtual!Return(e)
      BY <3>1, <3>2 DEF Virtual!Return
    <3>4. QED
      BY <3>3
  <2>5. QED
    BY <2>3, <2>4
<1>11. ASSUME NEW D \in SUBSET Devs, Unplug(D), SameFor(pool, pool', EpsOf(D))
       PROVE  \E S \in SUBSET Eps : Virtual!Detach(S)
  <2> DEFINE S == EpsOf(D)
  <2>1. S \in SUBSET Eps
    BY DEF EpsOf
  <2>2. SameFor(pool, pool', S) /\ live' = live \ S /\ hasError' = hasError
    BY <1>11 DEF Unplug
  <2> HIDE DEF S
  <2>3. Virtual!Detach(S)
    BY <2>1, <2>2, VirtualDetach
  <2>4. QED
    BY <2>1, <2>3
<1>12. ASSUME NEW d \in Devs, DeviceGone(d) PROVE \E S \in SUBSET Eps : Virtual!Detach(S)
  <2> DEFINE D == Subtree[d]
  <2>1. D \in SUBSET Devs /\ pool' = UnplugPool(DeInitControl(pool, D), D) /\ Unplug(D)
    BY <1>12 DEF DeviceGone
  <2> HIDE DEF D
  <2>2. SameFor(pool, pool', EpsOf(D))
    BY <1>1, <2>1, GoneToggles
  <2>3. QED
    BY <1>11, <2>1, <2>2
<1>13. ASSUME NEW d \in Devs, ErrorState(d) PROVE \E S \in SUBSET Eps : Virtual!Detach(S)
  <2> DEFINE D == Subtree[d]
  <2>1. D \in SUBSET Devs /\ pool' = DeInitControl(UnplugPool(pool, D), D) /\ Unplug(D)
    BY <1>13 DEF ErrorState
  <2> HIDE DEF D
  <2>2. SameFor(pool, pool', EpsOf(D))
    BY <1>1, <2>1, GoneToggles
  <2>3. QED
    BY <1>11, <2>1, <2>2
<1>14. ASSUME RootGone PROVE \E S \in SUBSET Eps : Virtual!Detach(S)
  <2> DEFINE p == UnplugPool(DeInitControl(pool, attached), attached)
             u == [c \in HC |-> FALSE]
  <2>1. pool' = [p EXCEPT !.used = u] /\ Unplug(attached)
    BY <1>14 DEF RootGone
  <2>2. SameFor(pool, p, EpsOf(attached))
    BY <1>1, GoneToggles
  <2>3. p \in Pool
    <3>1. PoolInv("none", DeInitControl(pool, attached))
      BY <1>1, DeInitInv
    <3>2. QED
      BY <1>1, <3>1, UnplugPoolInv DEF PoolInv
  <2> HIDE DEF p, u
  <2>4. pool'.idx = p.idx /\ pool'.saved = p.saved /\ pool'.tgl = p.tgl /\ pool'.armed = p.armed
    BY <2>1, <2>3 DEF Pool
  <2>5. SameFor(pool, pool', EpsOf(attached))
    BY <2>2, <2>4 DEF SameFor, PoolToggle, PoolBusy
  <2>6. QED
    BY <1>1, <1>11, <2>1, <2>5
<1>15. ASSUME NEW e \in Eps, Overwrite(e) PROVE FALSE
  BY <1>15 DEF Overwrite
<1>16. QED
  BY <1>2, <1>3, <1>4, <1>5, <1>6, <1>7, <1>8, <1>9, <1>10, <1>12, <1>13, <1>14, <1>15
     DEF Step, Virtual!VStep

(* Once broken, always broken. *)
LEMMA HarmStays == IInv /\ [Next]_vars => (harm' = "none" => harm = "none")
<1> SUFFICES ASSUME IInv, [Next]_vars, harm' = "none" PROVE harm = "none"
  OBVIOUS
<1>1. CASE Step
  BY <1>1 DEF Step, Plug, BeginControl, EndControl, NewEp, Request, Submit, Interrupt, TransferError,
              Finalize, DeviceGone, ErrorState, RootGone, Overwrite, devVars
<1>2. CASE UNCHANGED vars
  BY <1>2 DEF vars, devVars
<1>3. QED
  BY <1>1, <1>2 DEF Next

LEMMA VirtualStep == IInv /\ FaultInv /\ [Next]_vars => [Virtual!VNext]_(Virtual!vvars)
<1> SUFFICES ASSUME IInv, FaultInv, [Next]_vars PROVE [Virtual!VNext]_(Virtual!vvars)
  OBVIOUS
<1>1. CASE harm' # "none"
  BY <1>1 DEF Virtual!VNext
<1>2. CASE harm' = "none"
  <2>1. harm = "none"
    BY <1>2, HarmStays
  <2>2. CASE Step
    <3>1. Virtual!VStep \/ UNCHANGED Virtual!evars
      BY <1>2, <2>1, <2>2, VirtualUnbroken
    <3>2. QED
      BY <1>2, <2>1, <3>1 DEF Virtual!VNext, Virtual!vvars
  <2>3. CASE UNCHANGED vars
    BY <2>3 DEF vars, devVars, Virtual!vvars, Virtual!evars, VAlive, VLent, VBusy, VFault, VToggle,
                Lent, Busy, Fault, EpToggle
  <2>4. QED
    BY <2>2, <2>3 DEF Next
<1>3. QED
  BY <1>1, <1>2

(* ImplementsVirtual: for every number of channels, devices and endpoints, the
   DevIO layer's lending of channels is invisible to the endpoints a driver
   has: each toggle moves only as VirtualEndpoints lets it, by the endpoint's
   own transfers on its own loan, until the layer is broken by what is done to
   a freed object.  FaultInv is needed where a channel is borrowed: that clears
   the flag of a toggle error, which must not have been set for an endpoint
   without a channel. *)
THEOREM LendingInvisible == Spec => ImplementsVirtual
<1>1. Init => Virtual!VInit /\ FaultInv
  <2> SUFFICES ASSUME Init PROVE Virtual!VInit /\ FaultInv
    OBVIOUS
  <2>1. live = {} /\ harm = "none"
    BY DEF Init
  <2>2. VirtualOK
    BY VirtualValues
  <2>3. /\ VAlive = [e \in Eps |-> FALSE] /\ VLent = [e \in Eps |-> FALSE]
        /\ VBusy = [e \in Eps |-> FALSE] /\ VFault = [e \in Eps |-> FALSE]
        /\ VToggle = [e \in Eps |-> 0]
    BY <2>1, <2>2 DEF VirtualOK
  <2>4. QED
    BY <2>1, <2>3 DEF Virtual!VInit, FaultInv
<1>2. QED
  BY <1>1, VirtualStep, FaultStep, InitInv, StepInv, PTL DEF Spec, ImplementsVirtual, Virtual!VSpec
=============================================================================
