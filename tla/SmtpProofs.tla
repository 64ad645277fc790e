----------------------------- MODULE SmtpProofs -----------------------------
(***************************************************************************)
(* One connection, for any addresses, groups, filters and number of emails *)
(* and of recipients.                                                      *)
(*                                                                         *)
(* SenderKept.  The goroutines of DATA read the From of the session when   *)
(* they store, not the one of their email.  The argument: From changes in  *)
(* MAIL only; a client that waits sends MAIL when no goroutine is left; so *)
(* From is the sender of every email that is still being sent, and the     *)
(* sender of an email does not change any more once DATA has accepted it.  *)
(*                                                                         *)
(* OwnRecipients, EveryoneServed and FolderKept.  The array of an email is *)
(* written by RCPT and by the loop of DATA, and by nobody after that; the  *)
(* loop keeps the recipients that are there, in their places, and appends  *)
(* those of the filters (LoopInv, by induction along the loop); the        *)
(* goroutine finds everybody who was named, and has either handed over a   *)
(* copy for them or still has the item (RcptInv).                          *)
(***************************************************************************)
EXTENDS SmtpSession, WellFoundedInduction, TLAPS

\* The numbers of the emails grow: what was accepted is older than the email
\* that comes next.
Numbered ==
  /\ email \in Nat \ {0}
  /\ DOMAIN task = Emails /\ DOMAIN sender = Emails
  /\ \A e \in Emails : "st" \in DOMAIN task[e] /\ "work" \in DOMAIN task[e]
  /\ \A e \in Emails : task[e].st # "none" => e < email
  /\ \A c \in out : c.email \in Emails /\ c.email < email

\* From is the sender of the email whose MAIL was accepted, and with a client
\* that waits that of every email being sent.
FromIsSender ==
  /\ phase = "mail" => email \in Emails /\ sender[email] = from
  /\ patient => \A e \in Emails : task[e].st \in {"ready", "running"} => sender[e] = from

SenderInv == Numbered /\ FromIsSender /\ SenderKept

-----------------------------------------------------------------------------
\* No session has a sender at the start.
LEMMA SenderStarts == Init => SenderInv
  BY EmailsAreBounded DEF Init, SenderInv, Numbered, FromIsSender, SenderKept, Emails, Idle

\* A step of a goroutine moves its own email on, and no other.
LEMMA WorkOnly ==
  ASSUME Numbered, NEW e \in Emails, NEW w, Work(e, w)
  PROVE  /\ DOMAIN task' = Emails
         /\ \A d \in Emails : "st" \in DOMAIN task'[d] /\ "work" \in DOMAIN task'[d]
         /\ \A d \in Emails : task'[d].spam = task[d].spam
         /\ \A d \in Emails : d # e => task'[d] = task[d]
  BY DEF Numbered, Work

\* A goroutine that is not done hands out copies of its own email.
LEMMA RunKeeps ==
  ASSUME SenderInv, NEW e \in Emails, task[e].st \in {"ready", "running"},
         NEW w, Work(e, w), UNCHANGED <<from, phase, email, patient, sender>>,
         \A c \in out' \ out : c.email = e /\ (c.kind = "stored" => c.from = from)
  PROVE  SenderInv'
<1>1. e < email
  BY DEF SenderInv, Numbered
<1>2. Numbered'
  BY <1>1, WorkOnly DEF SenderInv, Numbered, Emails
<1>3. FromIsSender'
  BY WorkOnly DEF SenderInv, FromIsSender, Emails
<1>4. SenderKept'
  BY DEF SenderInv, FromIsSender, SenderKept
<1>5. QED
  BY <1>2, <1>3, <1>4 DEF SenderInv

\* Every step keeps the invariant.
LEMMA SenderStep == SenderInv /\ [Next]_vars => SenderInv'
<1> SUFFICES ASSUME SenderInv, [Next]_vars
             PROVE  SenderInv'
  OBVIOUS
<1> USE EmailsAreBounded
<1>1. ASSUME NEW ok, Auth(ok)
      PROVE  SenderInv'
  BY <1>1 DEF Auth, histVars, SenderInv, Numbered, FromIsSender, SenderKept, Emails
<1>2. ASSUME NEW f, Mail(f)
      PROVE  SenderInv'
  <2>1. \A e \in Emails : e < email => sender'[e] = sender[e]
    BY <1>2 DEF Mail, SenderInv, Numbered, Emails
  <2>2. Numbered'
    BY <1>2 DEF Mail, SenderInv, Numbered, Emails
  <2>3. FromIsSender'
    BY <1>2 DEF Mail, SenderInv, Numbered, FromIsSender, Emails
  <2>4. SenderKept'
    BY <1>2, <2>1 DEF Mail, SenderInv, Numbered, SenderKept
  <2>5. QED
    BY <2>2, <2>3, <2>4 DEF SenderInv
<1>3. ASSUME NEW a, Rcpt(a)
      PROVE  SenderInv'
  BY <1>3 DEF Rcpt, SenderInv, Numbered, FromIsSender, SenderKept, Emails
<1>4. CASE Rset
  <2>1. \A e \in Emails : e < email => sender'[e] = sender[e]
    BY <1>4 DEF Rset, SenderInv, Numbered, Emails
  <2>2. Numbered'
    BY <1>4 DEF Rset, Reset, SenderInv, Numbered, Emails
  <2>3. FromIsSender'
    BY <1>4, <2>1 DEF Rset, SenderInv, Numbered, FromIsSender, Emails
  <2>4. SenderKept'
    BY <1>4, <2>1 DEF Rset, SenderInv, Numbered, SenderKept
  <2>5. QED
    BY <2>2, <2>3, <2>4 DEF SenderInv
<1>5. ASSUME NEW results, NEW spam, Data(results, spam)
      PROVE  SenderInv'
  <2>1. /\ phase = "mail" /\ phase' # "mail"
        /\ email' = email + 1
        /\ UNCHANGED <<from, patient, sender, out>>
    BY <1>5 DEF Data, Reset
  <2>2. UNCHANGED task \/ \E n, marked : task' = [task EXCEPT ![email] =
          [st |-> "ready", from |-> from, arr |-> to.arr, n |-> n, spam |-> marked, work |-> {}]]
    BY <1>5 DEF Data
  <2>3. Numbered'
    BY <2>1, <2>2 DEF SenderInv, Numbered, FromIsSender, Emails
  <2>4. FromIsSender'
    BY <2>1, <2>2 DEF SenderInv, Numbered, FromIsSender, Emails
  <2>5. SenderKept'
    BY <2>1 DEF SenderInv, SenderKept
  <2>6. QED
    BY <2>3, <2>4, <2>5 DEF SenderInv
<1>6. ASSUME NEW e \in Emails, Start(e)
      PROVE  SenderInv'
  <2>1. /\ task[e].st = "ready"
        /\ \E w : Work(e, w)
        /\ UNCHANGED <<from, phase, email, patient, sender, out>>
    BY <1>6 DEF Start, histVars
  <2>2. QED
    BY <2>1, RunKeeps
<1>7. ASSUME NEW e \in Emails, NEW item, SendOutside(e, item)
      PROVE  SenderInv'
  <2>1. /\ task[e].st = "running"
        /\ \E w : Work(e, w)
        /\ UNCHANGED <<from, phase, email, patient, sender>>
    BY <1>7 DEF SendOutside, histVars
  <2>2. \A c \in out' \ out : c.email = e /\ c.kind = "queued"
    BY <1>7 DEF SendOutside, Copy
  <2>3. QED
    BY <2>1, <2>2, RunKeeps
<1>8. ASSUME NEW e \in Emails, NEW item, SendGroup(e, item)
      PROVE  SenderInv'
  <2>1. /\ task[e].st = "running"
        /\ \E w : Work(e, w)
        /\ UNCHANGED <<from, phase, email, patient, sender, out>>
    BY <1>8 DEF SendGroup, histVars
  <2>2. QED
    BY <2>1, RunKeeps
<1>9. ASSUME NEW e \in Emails, NEW item, SendInside(e, item)
      PROVE  SenderInv'
  <2>1. /\ task[e].st = "running"
        /\ \E w : Work(e, w)
        /\ UNCHANGED <<from, phase, email, patient, sender>>
    BY <1>9 DEF SendInside, histVars
  <2>2. \A c \in out' \ out : c.email = e /\ c.from = from
    BY <1>9 DEF SendInside, Copy
  <2>3. QED
    BY <2>1, <2>2, RunKeeps
<1>10. CASE UNCHANGED vars
  BY <1>10 DEF vars, SenderInv, Numbered, FromIsSender, SenderKept, Emails
<1>11. QED
  BY <1>1, <1>2, <1>3, <1>4, <1>5, <1>6, <1>7, <1>8, <1>9, <1>10 DEF Next, Talk, Run

\* Whatever the addresses, the groups, the filters and the number of emails of a
\* connection: with a client that waits for an email to be sent before its next
\* MAIL, every copy that relayInside stores has the sender of its own email.
THEOREM SenderIsKept == Spec => []SenderKept
<1>1. SenderInv => SenderKept
  BY DEF SenderInv
<1>2. QED
  BY <1>1, SenderStarts, SenderStep, PTL DEF Spec

-----------------------------------------------------------------------------
\* A set of natural numbers has a least element.
LEMMA Least ==
  ASSUME NEW T \in SUBSET Nat, T # {}
  PROVE  \E n \in T : \A k \in T : n <= k
<1>1. PICK n \in T : \A k \in T : ~(<<k, n>> \in OpToRel(<, Nat))
  BY NatLessThanWellFounded, WFMin, Zenon
<1>2. \A k \in T : ~(k < n)
  BY <1>1, Zenon DEF OpToRel
<1>3. QED
  BY <1>2

\* Induction along 0..n.
LEMMA UpTo ==
  ASSUME NEW n \in Nat, NEW S, 0 \in S, \A i \in 1..n : i - 1 \in S => i \in S
  PROVE  0..n \subseteq S
<1> SUFFICES ASSUME (0..n) \ S # {} PROVE FALSE
  OBVIOUS
<1>0. (0..n) \ S \in SUBSET Nat
  OBVIOUS
<1>1. PICK i \in (0..n) \ S : \A k \in (0..n) \ S : i <= k
  BY <1>0, Least, Zenon
<1>2. i # 0
  OBVIOUS
<1>3. i - 1 \in 0..n /\ i - 1 \in S
  BY <1>1, <1>2
<1>4. QED
  BY <1>2, <1>3

\* The paths of folders that occur: those of users, below INBOX or not, and those
\* that filters name.
Paths ==
  {NoPath} \cup {FolderOf[u] : u \in Users} \cup {<<"INBOX">> \o FolderOf[u] : u \in Users}
    \cup {r.mailbox : r \in Results}
Rcpts == [addr : Addrs, folder : Paths, local : BOOLEAN, group : BOOLEAN, named : Addrs]
Below(path) == IF path = NoPath THEN NoPath ELSE <<"INBOX">> \o path
Accs == [to : Seq(Rcpts), end : {"go", "refused", "panic"}]

\* What the loop of Data keeps: s is s.To as RCPT left it, the first i results
\* were applied.
LoopInv(acc, i, s, g) ==
  /\ acc \in Accs
  /\ acc.end = "go" =>
       /\ Len(acc.to) >= Len(s)
       /\ \A k \in 1..Len(s) :
            /\ acc.to[k].named = s[k].named /\ acc.to[k].group = s[k].group
            /\ acc.to[k].folder \in g.paths \cup {IF k <= i THEN Below(s[k].folder) ELSE s[k].folder}
       /\ \A k \in Len(s)+1..Len(acc.to) : acc.to[k].named \in g.rcpts /\ ~acc.to[k].group

\* A function on 1..n is a sequence.
LEMMA SeqOfFunction ==
  ASSUME NEW S, NEW n \in Nat, NEW f \in [1..n -> S]
  PROVE  f \in Seq(S) /\ Len(f) = n
  OBVIOUS

\* Two sequences of one set, one after the other.
LEMMA Concatenated ==
  ASSUME NEW S, NEW s \in Seq(S), NEW t \in Seq(S)
  PROVE  /\ s \o t \in Seq(S) /\ Len(s \o t) = Len(s) + Len(t)
         /\ \A i \in 1..Len(s)+Len(t) : (s \o t)[i] = IF i <= Len(s) THEN s[i] ELSE t[i - Len(s)]
  OBVIOUS

\* A sequence followed by nothing, and all of a sequence.
LEMMA WholeSequence ==
  ASSUME NEW S, NEW s \in Seq(S)
  PROVE  s \o <<>> = s /\ SubSeq(s, 1, Len(s)) = s
  OBVIOUS

\* applyResult keeps it.
LEMMA ApplyKeeps ==
  ASSUME NEW s \in Seq(Rcpts), NEW g, NEW i \in Nat, NEW acc, LoopInv(acc, i, s, g),
         NEW res \in Results,
         res.action # "discard" =>
           /\ res.mailbox # None => res.mailbox \in g.paths
           /\ \A j \in DOMAIN res.forward : res.forward[j] \in g.rcpts
  PROVE  LoopInv(Apply(acc, res), i, s, g)
<1> DEFINE fw == [j \in DOMAIN res.forward |-> Forwarded(res.forward[j])]
           all == acc.to \o fw
           moved == [k \in DOMAIN all |->
                       IF res.mailbox = None THEN all[k] ELSE [all[k] EXCEPT !.folder = res.mailbox]]
<1>1. CASE acc.end # "go"
  <2>1. Apply(acc, res) = acc
    BY <1>1 DEF Apply
  <2>2. QED
    BY <2>1
<1>2. CASE acc.end = "go" /\ Apply(acc, res).end # "go"
  <2>1. Apply(acc, res) \in {[acc EXCEPT !.end = "refused"], [acc EXCEPT !.end = "panic"]}
    BY <1>2, ResultsAreResults DEF Apply
  <2>2. QED
    BY <1>2, <2>1 DEF LoopInv, Accs
<1>3. CASE acc.end = "go" /\ Apply(acc, res) = acc
  BY <1>3
<1>4. CASE acc.end = "go" /\ Apply(acc, res).end = "go" /\ Apply(acc, res) # acc
  <2>1. res.action # "discard" /\ Apply(acc, res) = [acc EXCEPT !.to = moved]
    BY <1>4, Zenon DEF Apply, LoopInv, Accs
  <2>2. fw \in Seq(Rcpts) /\ Len(fw) = Len(res.forward)
    <3>1. res.forward \in Seq(Addrs)
      BY ResultsAreResults
    <3>2. fw \in [1..Len(res.forward) -> Rcpts]
      BY <3>1 DEF Forwarded, Rcpts, Paths
    <3>3. Len(res.forward) \in Nat
      BY <3>1
    <3> HIDE DEF fw
    <3>4. QED
      BY <3>2, <3>3, SeqOfFunction
  <2>3. /\ all \in Seq(Rcpts) /\ Len(all) = Len(acc.to) + Len(fw)
        /\ \A k \in 1..Len(all) : all[k] = IF k <= Len(acc.to) THEN acc.to[k] ELSE fw[k - Len(acc.to)]
    <3> HIDE DEF fw
    <3>1. acc.to \in Seq(Rcpts)
      BY DEF LoopInv, Accs
    <3>2. /\ all \in Seq(Rcpts) /\ Len(all) = Len(acc.to) + Len(fw)
          /\ \A k \in 1..Len(acc.to) + Len(fw) :
               all[k] = IF k <= Len(acc.to) THEN acc.to[k] ELSE fw[k - Len(acc.to)]
      BY <2>2, <3>1, Concatenated, Zenon
    <3> HIDE DEF all
    <3>3. QED
      BY <3>2
  <2>4. /\ moved \in Seq(Rcpts) /\ Len(moved) = Len(all)
        /\ \A k \in 1..Len(all) :
             /\ moved[k].named = all[k].named /\ moved[k].group = all[k].group
             /\ moved[k].folder = IF res.mailbox = None THEN all[k].folder ELSE res.mailbox
    <3> HIDE DEF all
    <3>1. DOMAIN all = 1..Len(all) /\ Len(all) \in Nat /\ \A k \in 1..Len(all) : all[k] \in Rcpts
      BY <2>3
    <3>2. res.mailbox \in Paths
      BY DEF Paths
    <3>3. \A r \in Rcpts : [r EXCEPT !.folder = res.mailbox] \in Rcpts
      BY <3>2 DEF Rcpts
    <3>4. moved \in [1..Len(all) -> Rcpts]
      BY <3>1, <3>3
    <3>5. \A k \in 1..Len(all) :
             /\ moved[k].named = all[k].named /\ moved[k].group = all[k].group
             /\ moved[k].folder = IF res.mailbox = None THEN all[k].folder ELSE res.mailbox
      BY <3>1 DEF Rcpts
    <3> HIDE DEF moved
    <3>6. QED
      BY <3>1, <3>4, <3>5, SeqOfFunction
  <2>5. \A k \in 1..Len(fw) : fw[k].named \in g.rcpts /\ ~fw[k].group
    BY <2>1, <2>2 DEF Forwarded
  <2> HIDE DEF fw, all, moved
  <2>6. Apply(acc, res) \in Accs /\ Apply(acc, res).to = moved
    BY <2>1, <2>4 DEF LoopInv, Accs
  <2>7. Len(acc.to) \in Nat /\ Len(s) \in Nat /\ Len(fw) \in Nat /\ Len(acc.to) >= Len(s)
    BY <1>4, <2>2 DEF LoopInv, Accs
  <2>8. \A k \in 1..Len(s) :
          /\ moved[k].named = s[k].named /\ moved[k].group = s[k].group
          /\ moved[k].folder \in g.paths \cup {IF k <= i THEN Below(s[k].folder) ELSE s[k].folder}
    BY <1>4, <2>1, <2>3, <2>4, <2>7 DEF LoopInv
  <2>9. \A k \in Len(s)+1..Len(moved) : moved[k].named \in g.rcpts /\ ~moved[k].group
    <3> SUFFICES ASSUME NEW k \in Len(s)+1..Len(moved)
                 PROVE  moved[k].named \in g.rcpts /\ ~moved[k].group
      OBVIOUS
    <3>1. k \in 1..Len(all) /\ moved[k].named = all[k].named /\ moved[k].group = all[k].group
      BY <2>3, <2>4, <2>7
    <3>2. CASE k <= Len(acc.to)
      BY <1>4, <2>3, <2>7, <3>1, <3>2 DEF LoopInv
    <3>3. CASE ~(k <= Len(acc.to))
      <4>1. k - Len(acc.to) \in 1..Len(fw) /\ all[k] = fw[k - Len(acc.to)]
        BY <2>3, <2>7, <3>1, <3>3
      <4>2. QED
        BY <2>5, <3>1, <4>1
    <3>4. QED
      BY <3>2, <3>3
  <2>10. QED
    BY <2>3, <2>4, <2>6, <2>7, <2>8, <2>9 DEF LoopInv
<1>5. QED
  BY <1>1, <1>2, <1>3, <1>4

\* One round of the loop.
LEMMA FilterKeeps ==
  ASSUME NEW s \in Seq(Rcpts), NEW g, NEW i \in 1..Len(s), NEW acc, LoopInv(acc, i - 1, s, g),
         \A k \in 1..Len(s) : Below(s[k].folder) \in Paths,
         NEW res \in Results,
         res.action # "discard" =>
           /\ res.mailbox # None => res.mailbox \in g.paths
           /\ \A j \in DOMAIN res.forward : res.forward[j] \in g.rcpts
  PROVE  LoopInv(Filter(acc, i, s[i], res), i, s, g)
<1> DEFINE set == IF acc.end # "go" \/ s[i].folder = NoPath THEN acc
                  ELSE [acc EXCEPT !.to[i] = [s[i] EXCEPT !.folder = <<"INBOX">> \o @]]
<1>1. LoopInv(set, i, s, g)
  <2>1. CASE acc.end # "go"
    BY <2>1 DEF LoopInv
  <2>2. CASE acc.end = "go" /\ s[i].folder = NoPath
    BY <2>2 DEF LoopInv, Below
  <2>3. CASE acc.end = "go" /\ s[i].folder # NoPath
    <3> DEFINE r == [s[i] EXCEPT !.folder = <<"INBOX">> \o @]
    <3>0. s[i] \in Rcpts /\ <<"INBOX">> \o s[i].folder \in Paths
      BY <2>3 DEF Below
    <3>1. /\ r \in Rcpts /\ r.folder = Below(s[i].folder)
          /\ r.named = s[i].named /\ r.group = s[i].group
      BY <2>3, <3>0, Zenon DEF Rcpts, Below
    <3>2. set = [acc EXCEPT !.to = [acc.to EXCEPT ![i] = r]]
      BY <2>3 DEF LoopInv, Accs
    <3> HIDE DEF r, set
    <3>3. /\ [acc.to EXCEPT ![i] = r] \in Seq(Rcpts)
          /\ Len([acc.to EXCEPT ![i] = r]) = Len(acc.to)
          /\ \A k \in 1..Len(acc.to) : [acc.to EXCEPT ![i] = r][k] = IF k = i THEN r ELSE acc.to[k]
      BY <2>3, <3>1 DEF LoopInv, Accs
    <3>4. set \in Accs /\ set.end = "go" /\ set.to = [acc.to EXCEPT ![i] = r]
      BY <2>3, <3>2, <3>3, Zenon DEF LoopInv, Accs
    <3>5. QED
      BY <2>3, <3>1, <3>3, <3>4 DEF LoopInv
  <2>4. QED
    BY <2>1, <2>2, <2>3
<1>2. Filter(acc, i, s[i], res) = Apply(set, res)
  BY DEF Filter
<1> HIDE DEF set
<1>3. QED
  BY <1>1, <1>2, ApplyKeeps

\* The loop of DATA as Filtered runs it.
Step(acc, i, results) == Filter(acc, i, SessionTo[i], results[i])
Base == [to |-> SessionTo, end |-> "go"]

\* The loop of Data: there is a sequence of accumulators.
LEMMA Loop ==
  ASSUME NEW results, to.n \in Nat
  PROVE  \E acc : /\ acc = [i \in 0..to.n |-> IF i = 0 THEN Base ELSE Step(acc[i-1], i, results)]
                  /\ Filtered(results) = acc[to.n]
<1> DEFINE n == to.n
           Fn(k, g) == g = [i \in 0..k |-> IF i = 0 THEN Base ELSE Step(g[i-1], i, results)]
           S == {k \in 0..n : \E g : Fn(k, g)}
<1>1. 0 \in S
  <2> DEFINE g == [i \in 0..0 |-> Base]
  <2>1. Fn(0, g)
    OBVIOUS
  <2> HIDE DEF g, Fn
  <2>2. QED
    BY <2>1
<1>2. ASSUME NEW k \in 1..n, k - 1 \in S
      PROVE  k \in S
  <2>1. PICK g : Fn(k - 1, g)
    BY <1>2
  <2> DEFINE h == [i \in 0..k |-> IF i = k THEN Step(g[k-1], k, results) ELSE g[i]]
  <2>2. Fn(k, h)
    <3> SUFFICES ASSUME NEW i \in 0..k
                 PROVE  h[i] = IF i = 0 THEN Base ELSE Step(h[i-1], i, results)
      OBVIOUS
    <3>1. CASE i = k
      BY <3>1
    <3>2. CASE i # k
      BY <2>1, <3>2
    <3>3. QED
      BY <3>1, <3>2
  <2>3. k \in 0..n
    OBVIOUS
  <2> HIDE DEF h, Fn
  <2>4. QED
    BY <2>2, <2>3
<1>3. n \in S
  <2> HIDE DEF S
  <2>1. QED BY <1>1, <1>2, UpTo
<1>4. PICK g0 : Fn(n, g0)
  BY <1>3
<1> DEFINE f == CHOOSE g : Fn(n, g)
<1>5. Fn(n, f)
  BY <1>4
<1>6. Filtered(results) = f[n]
  BY DEF Filtered, Base, Step
<1>7. QED
  BY <1>5, <1>6, Zenon

\* The loop as a whole.
LEMMA FilteredFits ==
  ASSUME to.n \in Nat, SessionTo \in Seq(Rcpts), Len(SessionTo) = to.n,
         \A k \in 1..to.n : Below(SessionTo[k].folder) \in Paths,
         NEW results \in [1..to.n -> Results]
  PROVE  LoopInv(Filtered(results), to.n, SessionTo, Given(results))
<1> DEFINE s == SessionTo
           g == Given(results)
<1>1. PICK acc : /\ acc = [i \in 0..to.n |-> IF i = 0 THEN Base ELSE Step(acc[i-1], i, results)]
                 /\ Filtered(results) = acc[to.n]
  BY Loop
<1> DEFINE Good == {i \in 0..to.n : LoopInv(acc[i], i, s, g)}
<1>2. 0 \in Good
  <2>1. acc[0] = Base
    BY <1>1
  <2>2. QED
    BY <2>1 DEF LoopInv, Accs, Base
<1>3. ASSUME NEW i \in 1..to.n, i - 1 \in Good
      PROVE  i \in Good
  <2>1. acc[i] = Filter(acc[i-1], i, s[i], results[i])
    BY <1>1 DEF Step
  <2>2. results[i] \in Results /\ results[i] \in Range(results)
    BY DEF Range
  <2>3. results[i].action # "discard" =>
          /\ results[i].mailbox # None => results[i].mailbox \in g.paths
          /\ \A j \in DOMAIN results[i].forward : results[i].forward[j] \in g.rcpts
    BY <2>2 DEF Given, Range
  <2>4. LoopInv(acc[i-1], i - 1, s, g)
    BY <1>3
  <2> HIDE DEF s, g
  <2>5. LoopInv(acc[i], i, s, g)
    BY <2>1, <2>2, <2>3, <2>4, FilterKeeps, Zenon DEF s
  <2>6. QED
    BY <2>5
<1>4. to.n \in Good
  <2> HIDE DEF Good
  <2>1. \A i \in 1..to.n : i - 1 \in Good => i \in Good
    BY <1>3
  <2>2. 0..to.n \subseteq Good
    BY <1>2, <2>1, UpTo, Zenon
  <2>3. QED
    BY <2>2
<1>5. QED
  BY <1>1, <1>4

-----------------------------------------------------------------------------
\* What is known of a recipient of the email e in its slice.
Fits(e, r) ==
  /\ r.named \in named[e] \cup given[e].rcpts
  /\ r.group => r.named \in Groups
  /\ r.named \in Users \ given[e].rcpts =>
       r.folder \in {Below(FolderOf[r.named])} \cup given[e].paths

\* An item is a recipient of the slice, or comes from a group that is one.
Belongs(e, item) ==
  /\ item.root \in named[e] \cup given[e].rcpts
  /\ item.root \notin Groups => item.root = item.rcpt.named /\ Fits(e, item.rcpt)

\* A copy for a was handed over.
Served(e, a) == \E c \in out : c.email = e /\ c.root = a

\* A goroutine that starts finds everybody in its array; later everybody, groups
\* apart, is served or still among its items.
TaskInv(e) ==
  /\ task[e].st = "ready" =>
       /\ task[e].arr = e /\ task[e].n = Len(arrays[e])
       /\ \A i \in 1..Len(arrays[e]) : Fits(e, arrays[e][i])
       /\ \A a \in named[e] : \E i \in 1..Len(arrays[e]) : arrays[e][i].named = a
  /\ task[e].st = "running" =>
       /\ \A item \in task[e].work : Belongs(e, item)
       /\ \A a \in named[e] \ Groups : Served(e, a) \/ \E item \in task[e].work : item.root = a
  /\ task[e].st = "done" => \A a \in named[e] \ Groups : Served(e, a)

\* A copy belongs to its email, and is in a folder that the email may be in.
CopyInv(c) ==
  /\ c.root \in named[c.email] \cup given[c.email].rcpts
  /\ c.kind = "stored" /\ c.root \in (Users \cap named[c.email]) \ given[c.email].rcpts =>
       c.folder \in IF task[c.email].spam THEN {Junk}
                   ELSE {Below(FolderOf[c.root])} \cup given[c.email].paths

\* The slice of the session has the array of the email that comes next, in
\* which there is what RCPT accepted.
SessionInv ==
  /\ to \in [arr : Nat, n : Nat] /\ to.arr = email
  /\ arrays \in [Emails -> Seq(Rcpts)]
  /\ named \in [Emails -> SUBSET Addrs]
  /\ given \in [Emails -> [paths : SUBSET Paths, rcpts : SUBSET Addrs]]
  /\ \A e \in Emails : e > email => named[e] = {} /\ arrays[e] = <<>>
  /\ email \in Emails =>
       /\ Len(arrays[email]) = to.n
       /\ \A i \in 1..to.n : \E a \in named[email] : arrays[email][i] = Resolve(a)
       /\ \A a \in named[email] : \E i \in 1..to.n : arrays[email][i] = Resolve(a)

\* The inductive invariant.
RcptInv ==
  /\ SessionInv
  /\ \A e \in Emails : TaskInv(e)
  /\ \A c \in out : CopyInv(c)

\* An email whose array, names and gifts stay as they are.
Same(e) ==
  /\ named'[e] = named[e] /\ given'[e] = given[e] /\ arrays'[e] = arrays[e]

\* What does not change stays true.
LEMMA TaskKept ==
  ASSUME NEW e, Same(e), task'[e] = task[e], out \subseteq out', TaskInv(e)
  PROVE  TaskInv(e)'
<1>1. \A a : Served(e, a) => Served(e, a)'
  BY DEF Served
<1>2. \A item : Belongs(e, item) => Belongs(e, item)'
  BY DEF Belongs, Fits, Same
<1>3. \A r : Fits(e, r) => Fits(e, r)'
  BY DEF Fits, Same
<1>4. QED
  BY <1>1, <1>2, <1>3 DEF TaskInv, Same

\* A copy stays right while the email it is of is left alone.
LEMMA CopyKept ==
  ASSUME NEW c, Same(c.email), task'[c.email].spam = task[c.email].spam, CopyInv(c)
  PROVE  CopyInv(c)'
  BY DEF CopyInv, Same

\* An email without a task.
LEMMA NoTask ==
  ASSUME NEW e, task'[e].st = "none"
  PROVE  TaskInv(e)'
  BY DEF TaskInv

\* A step of the client that changes nothing of the emails before.
LEMMA ClientStep ==
  ASSUME Numbered, RcptInv, UNCHANGED <<task, out>>,
         \A e \in Emails : e < email => Same(e), SessionInv'
  PROVE  RcptInv'
<1>1. ASSUME NEW e \in Emails PROVE TaskInv(e)'
  <2>1. CASE task[e].st = "none"
    BY <2>1, NoTask
  <2>2. CASE task[e].st # "none"
    <3>1. Same(e) /\ TaskInv(e)
      BY <2>2 DEF Numbered, RcptInv
    <3>2. QED
      BY <3>1, TaskKept
  <2>3. QED
    BY <2>1, <2>2
<1>2. ASSUME NEW c \in out' PROVE CopyInv(c)'
  <2>1. c \in out /\ c.email \in Emails /\ c.email < email
    BY DEF Numbered
  <2>2. QED
    BY <2>1, CopyKept DEF RcptInv
<1>3. QED
  BY <1>1, <1>2 DEF RcptInv

\* The items of a slice: one for each of its recipients.
LEMMA ItemsOf ==
  ASSUME NEW s, NEW path, NEW root, NEW f, NEW w, w = Items(s, path, root, f)
  PROVE  /\ \A item \in w : \E i \in DOMAIN s :
              item.rcpt = s[i] /\ item.root = IF root = None THEN s[i].named ELSE root
         /\ \A i \in DOMAIN s : \E item \in w :
              item.rcpt = s[i] /\ item.root = IF root = None THEN s[i].named ELSE root
<1> DEFINE same(i, j) == Domain[s[j].addr] = Domain[s[i].addr]
           first(i) == CHOOSE j \in DOMAIN s :
                         same(i, j) /\ \A k \in DOMAIN s : same(i, k) => j <= k
           It(i) == [path |-> Append(path, i), rcpt |-> s[i], from |-> f,
                     root |-> IF root = None THEN s[i].named ELSE root,
                     inside |-> s[first(i)].local]
<1>1. w = {It(i) : i \in DOMAIN s}
  BY DEF Items
<1> HIDE DEF first
<1>2. \A i : It(i).rcpt = s[i] /\ It(i).root = IF root = None THEN s[i].named ELSE root
  OBVIOUS
<1> HIDE DEF It
<1>3. QED
  BY <1>1, <1>2

\* A step of the goroutine of the email e, which has w left to do: it changes
\* nothing of the session, and the copies it makes are right.
Goes(e, w) ==
  /\ Work(e, w) /\ UNCHANGED <<to, arrays, email, named, given>>
  /\ out \subseteq out' /\ \A c \in out' \ out : c.email = e /\ CopyInv(c)

\* Such a step keeps everything but, perhaps, what is known of its own task.
LEMMA TaskStep ==
  ASSUME Numbered, RcptInv, NEW e \in Emails, NEW w, Goes(e, w), TaskInv(e)'
  PROVE  RcptInv'
<1>0. /\ Work(e, w) /\ UNCHANGED <<to, arrays, email, named, given>>
      /\ out \subseteq out' /\ \A c \in out' \ out : CopyInv(c)
  BY DEF Goes
<1>1. \A d : Same(d)
  BY <1>0 DEF Same
<1>2. SessionInv'
  BY <1>0 DEF RcptInv, SessionInv, Emails
<1>3. ASSUME NEW d \in Emails PROVE TaskInv(d)'
  <2>1. CASE d # e
    <3>1. task'[d] = task[d]
      BY <1>0, <2>1, WorkOnly
    <3>2. TaskInv(d)
      BY DEF RcptInv
    <3>3. QED
      BY <1>0, <1>1, <3>1, <3>2, TaskKept, Zenon
  <2>2. QED
    BY <2>1
<1>4. ASSUME NEW c \in out' PROVE CopyInv(c)'
  <2>1. CopyInv(c) /\ c.email \in Emails
    BY <1>0 DEF RcptInv, Goes, Numbered
  <2>2. task'[c.email].spam = task[c.email].spam
    BY <1>0, <2>1, WorkOnly
  <2>3. QED
    BY <1>1, <2>1, <2>2, CopyKept
<1>5. QED
  BY <1>2, <1>3, <1>4 DEF RcptInv

\* The state of a task after a step: it is done when there is nothing left.
LEMMA WorkState ==
  ASSUME Numbered, NEW e \in Emails, NEW w, Work(e, w),
         \A item \in w : Belongs(e, item)',
         \A a \in named'[e] \ Groups : Served(e, a)' \/ \E item \in w : item.root = a
  PROVE  TaskInv(e)'
<1>1. task'[e].work = w /\ task'[e].st = IF w = {} THEN "done" ELSE "running"
  BY DEF Work, Numbered
<1>2. QED
  BY <1>1 DEF TaskInv

-----------------------------------------------------------------------------
\* A new connection.
LEMMA RcptStarts == Init => RcptInv
<1> SUFFICES ASSUME Init PROVE RcptInv
  OBVIOUS
<1>1. <<>> \in Seq(Rcpts) /\ Len(<<>>) = 0
  OBVIOUS
<1>2. SessionInv
  BY <1>1, EmailsAreBounded DEF Init, SessionInv, Emails, Nothing
<1>3. \A e \in Emails : TaskInv(e)
  BY DEF Init, TaskInv, Idle
<1>4. QED
  BY <1>2, <1>3 DEF Init, RcptInv

\* What rcpt gives for an address.
LEMMA ResolveIsRcpt ==
  ASSUME NEW a \in Addrs
  PROVE  /\ Resolve(a) \in Rcpts /\ Resolve(a).named = a
         /\ Resolve(a).group <=> a \in Groups
         /\ Resolve(a).folder = IF a \in Users THEN FolderOf[a] ELSE NoPath
         /\ Below(Resolve(a).folder) \in Paths
<1>1. UserOf[a] \in Addrs \/ a \notin Users
  BY UsersAreLocal, GroupsAreNoUsers
<1>2. /\ NoPath \in Paths
      /\ a \in Users => FolderOf[a] \in Paths /\ <<"INBOX">> \o FolderOf[a] \in Paths
  BY DEF Paths
<1>3. Resolve(a).addr \in Addrs /\ Resolve(a).folder \in Paths
  BY <1>1, <1>2 DEF Resolve
<1>4. Resolve(a) \in Rcpts
  BY <1>3, SMTT(30) DEF Resolve, Rcpts, IsLocal
<1>5. QED
  BY <1>2, <1>4, Zenon DEF Resolve, Below

\* RCPT appends to the array of the email.
LEMMA RcptKeeps ==
  ASSUME Numbered, RcptInv, FromIsSender, NEW a \in Tos, Rcpt(a)
  PROVE  RcptInv'
<1> DEFINE s == arrays[email]
           t == Append(s, Resolve(a))
<1>1. email \in Emails /\ to.arr = email /\ to.n = Len(s) /\ s \in Seq(Rcpts) /\ to.n \in Nat
  BY DEF Rcpt, FromIsSender, RcptInv, SessionInv
<1>2. a \in Addrs /\ Resolve(a) \in Rcpts
  BY AddressesAreNamed, ResolveIsRcpt
<1>3. SessionTo = s
  BY <1>1, WholeSequence DEF SessionTo
<1>4. /\ t \in Seq(Rcpts) /\ Len(t) = to.n + 1 /\ t[to.n + 1] = Resolve(a)
      /\ \A i \in 1..to.n : t[i] = s[i]
  BY <1>1, <1>2
<1>5. Written(s, t) = t
  <2> HIDE DEF t
  <2>1. SubSeq(s, Len(t) + 1, Len(s)) = <<>>
    BY <1>1, <1>4
  <2>2. QED
    BY <1>4, <2>1, WholeSequence, Zenon DEF Written
<1>6. /\ arrays' = [arrays EXCEPT ![email] = t]
      /\ to' = [to EXCEPT !.n = @ + 1]
      /\ named' = [named EXCEPT ![email] = @ \cup {a}]
      /\ UNCHANGED <<email, given, task, out>>
  BY <1>1, <1>3, <1>5 DEF Rcpt
<1> HIDE DEF t
<1>7. SessionInv'
  <2>1. /\ to' \in [arr : Nat, n : Nat] /\ to'.arr = email' /\ to'.n = to.n + 1
        /\ arrays' \in [Emails -> Seq(Rcpts)] /\ arrays'[email] = t
        /\ named' \in [Emails -> SUBSET Addrs] /\ named'[email] = named[email] \cup {a}
    <3>1. to' \in [arr : Nat, n : Nat] /\ to'.arr = email' /\ to'.n = to.n + 1
      BY <1>1, <1>6 DEF RcptInv, SessionInv
    <3>2. arrays' \in [Emails -> Seq(Rcpts)] /\ arrays'[email] = t
      BY <1>1, <1>4, <1>6 DEF RcptInv, SessionInv
    <3>3. named' \in [Emails -> SUBSET Addrs] /\ named'[email] = named[email] \cup {a}
      BY <1>1, <1>2, <1>6 DEF RcptInv, SessionInv
    <3>4. QED
      BY <3>1, <3>2, <3>3
  <2>2. \A e \in Emails : e > email => named'[e] = {} /\ arrays'[e] = <<>>
    BY <1>1, <1>6 DEF RcptInv, SessionInv, Emails
  <2>3. \A i \in 1..to'.n : \E b \in named'[email] : arrays'[email][i] = Resolve(b)
    <3> SUFFICES ASSUME NEW i \in 1..to'.n
                 PROVE  \E b \in named'[email] : t[i] = Resolve(b)
      BY <2>1
    <3>1. CASE i = to.n + 1
      BY <1>4, <2>1, <3>1
    <3>2. CASE i \in 1..to.n
      <4>1. PICK b \in named[email] : s[i] = Resolve(b)
        BY <1>1, <3>2 DEF RcptInv, SessionInv
      <4>2. QED
        BY <1>4, <2>1, <3>2, <4>1
    <3>3. QED
      BY <1>1, <2>1, <3>1, <3>2
  <2>4. \A b \in named'[email] : \E i \in 1..to'.n : arrays'[email][i] = Resolve(b)
    <3> SUFFICES ASSUME NEW b \in named'[email]
                 PROVE  \E i \in 1..to'.n : arrays'[email][i] = Resolve(b)
      OBVIOUS
    <3>1. CASE b = a
      BY <1>1, <1>4, <2>1, <3>1
    <3>2. CASE b # a
      <4>1. PICK i \in 1..to.n : s[i] = Resolve(b)
        BY <1>1, <2>1, <3>2 DEF RcptInv, SessionInv
      <4>2. i \in 1..to'.n /\ arrays'[email][i] = Resolve(b)
        BY <1>1, <1>4, <2>1, <4>1
      <4>3. QED
        BY <4>2
    <3>3. QED
      BY <3>1, <3>2
  <2>5. QED
    BY <1>4, <1>6, <2>1, <2>2, <2>3, <2>4 DEF RcptInv, SessionInv, Emails
<1>8. \A e \in Emails : e < email => Same(e)
  BY <1>1, <1>6 DEF Same, RcptInv, SessionInv, Emails, Numbered
<1>9. QED
  BY <1>6, <1>7, <1>8, ClientStep

\* The client goes on to the next email.
LEMMA ResetKeeps ==
  ASSUME Numbered, RcptInv, email \in Emails, Reset,
         \A e \in Emails : e > email => Same(e),
         arrays' \in [Emails -> Seq(Rcpts)], named' \in [Emails -> SUBSET Addrs],
         given' \in [Emails -> [paths : SUBSET Paths, rcpts : SUBSET Addrs]]
  PROVE  SessionInv'
<1>1. email \in Nat /\ email' = email + 1 /\ to' = [arr |-> email + 1, n |-> 0]
  BY DEF Reset, Numbered
<1>2. \A e \in Emails : e > email => named'[e] = {} /\ arrays'[e] = <<>>
  BY DEF RcptInv, SessionInv, Same
<1>3. email' \in Emails => named'[email'] = {} /\ arrays'[email'] = <<>>
  BY <1>1, <1>2 DEF Emails
<1>4. Len(<<>>) = 0
  OBVIOUS
<1>5. QED
  BY <1>1, <1>2, <1>3, <1>4 DEF SessionInv, Emails

\* RSET forgets the email.
LEMMA RsetKeeps ==
  ASSUME Numbered, RcptInv, FromIsSender, Rset
  PROVE  RcptInv'
<1>1. email \in Emails /\ email \in Nat
  BY DEF Rset, FromIsSender, Numbered
<1>2. \A e \in Emails : e # email => Same(e)
  BY DEF Rset, Same, RcptInv, SessionInv
<1>3. SessionInv'
  BY <1>1, <1>2, ResetKeeps DEF Rset, RcptInv, SessionInv, Emails
<1>4. QED
  BY <1>1, <1>2, <1>3, ClientStep DEF Rset, Emails

\* What the filters leave is in the array of the email, and fits.
LEMMA DataFits ==
  ASSUME Numbered, RcptInv, email \in Emails, NEW results \in [1..to.n -> Results],
         Filtered(results).end = "go"
  PROVE  LET t == Filtered(results).to
             g == Given(results)
         IN /\ t \in Seq(Rcpts) /\ Written(arrays[email], t) = t
            /\ g \in [paths : SUBSET Paths, rcpts : SUBSET Addrs]
            /\ \A i \in 1..Len(t) :
                 /\ t[i].named \in named[email] \cup g.rcpts
                 /\ t[i].group => t[i].named \in Groups
                 /\ t[i].named \in Users \ g.rcpts =>
                      t[i].folder \in {Below(FolderOf[t[i].named])} \cup g.paths
            /\ \A a \in named[email] : \E i \in 1..Len(t) : t[i].named = a
<1> DEFINE s == arrays[email]
           t == Filtered(results).to
           g == Given(results)
<1>1. to.arr = email /\ to.n = Len(s) /\ s \in Seq(Rcpts) /\ to.n \in Nat
  BY DEF RcptInv, SessionInv
<1>2. SessionTo = s
  BY <1>1, WholeSequence DEF SessionTo
<1>3. ASSUME NEW i \in 1..to.n
      PROVE  \E a \in named[email] : /\ s[i].named = a /\ (s[i].group <=> a \in Groups)
                                     /\ s[i].folder = IF a \in Users THEN FolderOf[a] ELSE NoPath
                                     /\ Below(s[i].folder) \in Paths
  <2>1. PICK a \in named[email] : s[i] = Resolve(a)
    BY DEF RcptInv, SessionInv
  <2>2. a \in Addrs
    BY DEF RcptInv, SessionInv
  <2>3. QED
    BY <2>1, <2>2, ResolveIsRcpt
<1>4. LoopInv(Filtered(results), to.n, s, g)
  BY <1>1, <1>2, <1>3, FilteredFits
<1>5. /\ t \in Seq(Rcpts) /\ Len(t) >= to.n /\ Len(t) \in Nat
      /\ \A k \in 1..to.n : /\ t[k].named = s[k].named /\ t[k].group = s[k].group
                            /\ t[k].folder \in g.paths \cup {Below(s[k].folder)}
      /\ \A k \in to.n+1..Len(t) : t[k].named \in g.rcpts /\ ~t[k].group
  BY <1>1, <1>4 DEF LoopInv, Accs
<1>6. g \in [paths : SUBSET Paths, rcpts : SUBSET Addrs]
  <2>1. \A r \in Range(results) : r \in Results
    BY DEF Range
  <2>2. \A r \in Range(results) : r.mailbox \in Paths /\ Range(r.forward) \subseteq Addrs
    <3> SUFFICES ASSUME NEW r \in Range(results)
                 PROVE  r.mailbox \in Paths /\ Range(r.forward) \subseteq Addrs
      OBVIOUS
    <3>1. r.mailbox \in Paths
      BY <2>1 DEF Paths
    <3>2. r.forward \in Seq(Addrs)
      BY <2>1, ResultsAreResults
    <3>3. QED
      BY <3>1, <3>2 DEF Range
  <2>3. QED
    BY <2>2 DEF Given
<1> HIDE DEF t, g
<1>7. Written(s, t) = t
  <2>1. SubSeq(s, Len(t) + 1, Len(s)) = <<>>
    BY <1>1, <1>5
  <2>2. QED
    BY <1>5, <2>1, WholeSequence, Zenon DEF Written
<1>8. ASSUME NEW i \in 1..Len(t)
      PROVE  /\ t[i].named \in named[email] \cup g.rcpts
             /\ t[i].group => t[i].named \in Groups
             /\ t[i].named \in Users \ g.rcpts =>
                  t[i].folder \in {Below(FolderOf[t[i].named])} \cup g.paths
  <2>1. CASE i \in 1..to.n
    <3>1. PICK a \in named[email] : /\ s[i].named = a /\ (s[i].group <=> a \in Groups)
                                    /\ s[i].folder = IF a \in Users THEN FolderOf[a] ELSE NoPath
      BY <1>3, <2>1
    <3>2. QED
      BY <1>5, <2>1, <3>1
  <2>2. CASE i \in to.n+1..Len(t)
    BY <1>5, <2>2
  <2>3. QED
    BY <1>1, <1>5, <2>1, <2>2
<1>9. ASSUME NEW a \in named[email]
      PROVE  \E i \in 1..Len(t) : t[i].named = a
  <2>1. PICK i \in 1..to.n : s[i] = Resolve(a)
    BY <1>1 DEF RcptInv, SessionInv
  <2>2. s[i].named = a
    BY <2>1 DEF Resolve
  <2>3. i \in 1..Len(t) /\ t[i].named = a
    BY <1>1, <1>5, <2>2
  <2>4. QED
    BY <2>3
<1>10. QED
  BY <1>5, <1>6, <1>7, <1>8, <1>9 DEF t, g

\* DATA hands the array over to the goroutine, or forgets the email.
LEMMA DataKeeps ==
  ASSUME Numbered, RcptInv, FromIsSender, NEW results \in [1..to.n -> Results], NEW spam,
         Data(results, spam)
  PROVE  RcptInv'
<1> DEFINE f == Filtered(results)
           t == f.to
           g == Given(results)
<1>1. email \in Emails /\ email \in Nat /\ to.arr = email /\ Reset /\ UNCHANGED out
  BY DEF Data, FromIsSender, Numbered, RcptInv, SessionInv
<1>2. CASE spam = "refuse" \/ f.end # "go"
  <2>1. UNCHANGED <<arrays, given, task>> /\ named' = [named EXCEPT ![email] = {}]
    BY <1>2 DEF Data
  <2>2. \A e \in Emails : e # email => Same(e)
    BY <2>1 DEF Same, RcptInv, SessionInv
  <2>3. SessionInv'
    BY <1>1, <2>1, <2>2, ResetKeeps DEF RcptInv, SessionInv, Emails
  <2>4. QED
    BY <1>1, <2>1, <2>2, <2>3, ClientStep DEF Emails
<1>3. CASE ~(spam = "refuse" \/ f.end # "go")
  <2>1. /\ t \in Seq(Rcpts) /\ Written(arrays[email], t) = t
        /\ g \in [paths : SUBSET Paths, rcpts : SUBSET Addrs]
        /\ \A i \in 1..Len(t) :
             /\ t[i].named \in named[email] \cup g.rcpts
             /\ t[i].group => t[i].named \in Groups
             /\ t[i].named \in Users \ g.rcpts =>
                  t[i].folder \in {Below(FolderOf[t[i].named])} \cup g.paths
        /\ \A a \in named[email] : \E i \in 1..Len(t) : t[i].named = a
    BY <1>1, <1>3, DataFits
  <2>2. /\ arrays' = [arrays EXCEPT ![email] = t]
        /\ given' = [given EXCEPT ![email] = g]
        /\ named' = named
        /\ task' = [task EXCEPT ![email] =
             [st |-> "ready", from |-> from, arr |-> email, n |-> Len(t),
              spam |-> spam = "mark", work |-> {}]]
    BY <1>1, <1>3, <2>1 DEF Data
  <2> HIDE DEF f, t, g
  <2>3. \A e \in Emails : e # email => Same(e) /\ task'[e] = task[e]
    BY <2>2 DEF Same, RcptInv, SessionInv, Numbered
  <2>4. SessionInv'
    <3>1. arrays' \in [Emails -> Seq(Rcpts)] /\ named' \in [Emails -> SUBSET Addrs]
      BY <2>1, <2>2, Zenon DEF RcptInv, SessionInv
    <3>2. given' \in [Emails -> [paths : SUBSET Paths, rcpts : SUBSET Addrs]]
      BY <2>1, <2>2, Zenon DEF RcptInv, SessionInv
    <3>3. \A e \in Emails : e > email => Same(e)
      BY <1>1, <2>3 DEF Emails
    <3>4. QED
      BY <1>1, <3>1, <3>2, <3>3, ResetKeeps
  <2>5. ASSUME NEW e \in Emails PROVE TaskInv(e)'
    <3>1. CASE e = email
      <4>1. /\ arrays'[e] = t /\ given'[e] = g /\ named'[e] = named[email]
            /\ task'[e] = [st |-> "ready", from |-> from, arr |-> e, n |-> Len(t),
                           spam |-> spam = "mark", work |-> {}]
        <5>1. arrays'[e] = t
          BY <2>2, <3>1 DEF RcptInv, SessionInv
        <5>2. given'[e] = g /\ named'[e] = named[email]
          BY <2>2, <3>1 DEF RcptInv, SessionInv
        <5>3. task'[e] = [st |-> "ready", from |-> from, arr |-> e, n |-> Len(t),
                             spam |-> spam = "mark", work |-> {}]
          BY <2>2, <3>1 DEF Numbered
        <5>4. QED
          BY <5>1, <5>2, <5>3
      <4>2. \A i \in 1..Len(arrays'[e]) : Fits(e, arrays[e][i])'
        BY <2>1, <4>1 DEF Fits
      <4>3. \A a \in named'[e] : \E i \in 1..Len(arrays'[e]) : arrays'[e][i].named = a
        BY <2>1, <4>1
      <4>4. task'[e].st = "ready" /\ task'[e].arr = e /\ task'[e].n = Len(arrays'[e])
        BY <4>1
      <4>5. QED
        BY <4>2, <4>3, <4>4 DEF TaskInv
    <3>2. CASE e # email
      BY <1>1, <2>3, <3>2, TaskKept, Zenon DEF RcptInv
    <3>3. QED
      BY <3>1, <3>2
  <2>6. ASSUME NEW c \in out' PROVE CopyInv(c)'
    <3>1. c \in out /\ c.email \in Emails /\ c.email # email
      BY <1>1 DEF Numbered, Emails
    <3>2. QED
      BY <2>3, <3>1, CopyKept DEF RcptInv
  <2>7. QED
    BY <2>4, <2>5, <2>6 DEF RcptInv
<1>4. QED
  BY <1>2, <1>3

\* MAIL and AUTH change no recipient.
LEMMA IdleKeeps ==
  ASSUME Numbered, RcptInv, UNCHANGED <<to, arrays, email, named, given, task, out>>
  PROVE  RcptInv'
<1>1. \A e : Same(e)
  BY DEF Same
<1>2. SessionInv'
  BY DEF RcptInv, SessionInv, Emails
<1>3. QED
  BY <1>1, <1>2, ClientStep

\* The goroutine reads the array that DATA left.
LEMMA StartKeeps ==
  ASSUME Numbered, RcptInv, NEW e \in Emails, Start(e)
  PROVE  RcptInv'
<1> DEFINE s == arrays[e]
           w == Items(s, <<>>, None, task[e].from)
<1>1. /\ s \in Seq(Rcpts)
      /\ \A i \in 1..Len(s) : Fits(e, s[i])
      /\ \A a \in named[e] : \E i \in 1..Len(s) : s[i].named = a
  BY DEF RcptInv, SessionInv, TaskInv, Start
<1>2. SubSeq(arrays[task[e].arr], 1, task[e].n) = s
  BY <1>1, WholeSequence, Zenon DEF Start, RcptInv, TaskInv
<1>3. Work(e, w) /\ UNCHANGED <<to, arrays, email, named, given, out>>
  BY <1>2, Zenon DEF Start, histVars
<1>4. Goes(e, w)
  BY <1>3, Zenon DEF Goes
<1>5. DOMAIN s = 1..Len(s)
  BY <1>1
<1>6. /\ \A item \in w : \E i \in DOMAIN s : item.rcpt = s[i] /\ item.root = s[i].named
      /\ \A i \in DOMAIN s : \E item \in w : item.rcpt = s[i] /\ item.root = s[i].named
  BY ItemsOf
<1> HIDE DEF w
<1>7. ASSUME NEW item \in w PROVE Belongs(e, item)'
  <2>1. Belongs(e, item)
    BY <1>1, <1>5, <1>6 DEF Belongs, Fits
  <2>2. QED
    BY <1>3, <2>1 DEF Belongs, Fits
<1>8. \A a \in named'[e] \ Groups : \E item \in w : item.root = a
  BY <1>1, <1>3, <1>5, <1>6
<1>9. TaskInv(e)'
  BY <1>3, <1>7, <1>8, WorkState
<1>10. QED
  BY <1>4, <1>9, TaskStep, Zenon

\* In place of an item there is nothing or, when it is of a group, other items
\* of the group.
Replaced(e, item, w) ==
  /\ task[e].work \ {item} \subseteq w
  /\ \A it \in w : it \in task[e].work \/ (item.root \in Groups /\ it.root = item.root)

\* A recipient is handed over: the copy belongs to the email, and those that
\* are left are served or still there.
LEMMA SendKeeps ==
  ASSUME Numbered, RcptInv, NEW e \in Emails, task[e].st = "running",
         NEW item \in task[e].work, NEW w, Goes(e, w), Replaced(e, item, w),
         item.root \in Groups \/ Served(e, item.root)'
  PROVE  RcptInv'
<1>0. Work(e, w) /\ UNCHANGED <<to, arrays, email, named, given>> /\ out \subseteq out'
  BY DEF Goes
<1>1. /\ \A it \in task[e].work : Belongs(e, it)
      /\ \A a \in named[e] \ Groups : Served(e, a) \/ \E it \in task[e].work : it.root = a
  <2>1. TaskInv(e)
    BY Zenon DEF RcptInv
  <2>2. QED
    BY <2>1, Zenon DEF TaskInv
<1>2. ASSUME NEW it \in w PROVE Belongs(e, it)'
  <2>1. Belongs(e, it)
    BY <1>1, Zenon DEF Belongs, Replaced
  <2>2. QED
    BY <1>0, <2>1 DEF Belongs, Fits
<1>3. ASSUME NEW a \in named'[e] \ Groups
      PROVE  Served(e, a)' \/ \E it \in w : it.root = a
  <2>1. Served(e, a) => Served(e, a)'
    BY <1>0 DEF Served
  <2>2. QED
    BY <1>0, <1>1, <2>1, Zenon DEF Replaced
<1>4. TaskInv(e)'
  BY <1>0, <1>2, <1>3, WorkState
<1>5. QED
  BY <1>4, TaskStep, Zenon

\* The copy of an item, in its folder or, when it is marked, in Junk.
LEMMA CopyFits ==
  ASSUME RcptInv, NEW e \in Emails, task[e].st = "running", NEW item \in task[e].work,
         NEW kind, NEW folder, NEW f, NEW c, c = Copy(e, item, kind, folder, f),
         kind = "stored" => folder = IF task[e].spam THEN Junk ELSE item.rcpt.folder
  PROVE  c.email = e /\ c.root = item.root /\ CopyInv(c)
<1>1. Belongs(e, item)
  BY Zenon DEF RcptInv, TaskInv
<1>2. item.root \in Users => item.root \notin Groups
  BY GroupsAreNoUsers
<1>3. c.email = e /\ c.root = item.root /\ c.kind = kind /\ c.folder = folder
  BY DEF Copy
<1>4. QED
  BY <1>1, <1>2, <1>3 DEF CopyInv, Belongs, Fits

\* The queue, the storage or the log gets a copy.
LEMMA SendOutKeeps ==
  ASSUME Numbered, RcptInv, NEW e \in Emails, NEW item \in task[e].work,
         SendOutside(e, item) \/ SendInside(e, item)
  PROVE  RcptInv'
<1>1. PICK kind, folder, f :
         /\ task[e].st = "running"
         /\ out' = out \cup {Copy(e, item, kind, folder, f)}
         /\ kind = "stored" => folder = IF task[e].spam THEN Junk ELSE item.rcpt.folder
         /\ Work(e, task[e].work \ {item})
         /\ UNCHANGED <<to, arrays, email, named, given>>
  BY DEF SendOutside, SendInside, histVars
<1>2. PICK c : c = Copy(e, item, kind, folder, f)
  OBVIOUS
<1>3. c.email = e /\ c.root = item.root /\ CopyInv(c)
  BY <1>1, <1>2, CopyFits
<1>4. out' = out \cup {c}
  BY <1>1, <1>2, Zenon
<1>5. Served(e, item.root)'
  BY <1>3, <1>4 DEF Served
<1>6. Goes(e, task[e].work \ {item})
  BY <1>1, <1>3, <1>4 DEF Goes
<1>7. Replaced(e, item, task[e].work \ {item})
  BY DEF Replaced
<1>8. QED
  BY <1>1, <1>5, <1>6, <1>7, SendKeeps, Zenon

\* A group is replaced by its members.
LEMMA SendGroupKeeps ==
  ASSUME Numbered, RcptInv, NEW e \in Emails, NEW item \in task[e].work, SendGroup(e, item)
  PROVE  RcptInv'
<1>0. PICK lost \in SUBSET DenUsers :
         LET members == SelectSeq(Members[item.rcpt.addr], LAMBDA m : m \notin lost /\ Accepts(from, m))
             rcpts == [i \in DOMAIN members |-> Resolve(members[i])]
         IN Work(e, (task[e].work \ {item}) \cup Items(rcpts, item.path, item.root, item.rcpt.addr))
  BY Zenon DEF SendGroup
<1> DEFINE members == SelectSeq(Members[item.rcpt.addr], LAMBDA m : m \notin lost /\ Accepts(from, m))
           rcpts == [i \in DOMAIN members |-> Resolve(members[i])]
           more == Items(rcpts, item.path, item.root, item.rcpt.addr)
<1>1. /\ task[e].st = "running" /\ item.rcpt.group
      /\ Work(e, (task[e].work \ {item}) \cup more)
      /\ UNCHANGED <<to, arrays, email, named, given, out>>
  BY <1>0 DEF SendGroup, histVars
<1>2. Belongs(e, item) /\ item.root \in Groups
  BY <1>1, Zenon DEF RcptInv, TaskInv, Belongs, Fits
<1>3. item.root # None
  BY <1>2, GroupsAreNoUsers, AddressesAreNamed
<1> HIDE DEF rcpts
<1>4. \A it \in more : it.root = item.root
  BY <1>3, ItemsOf
<1> HIDE DEF more
<1>5. Goes(e, (task[e].work \ {item}) \cup more)
  BY <1>1 DEF Goes
<1>6. Replaced(e, item, (task[e].work \ {item}) \cup more)
  BY <1>2, <1>4 DEF Replaced
<1>7. QED
  BY <1>1, <1>2, <1>5, <1>6, SendKeeps, Zenon

-----------------------------------------------------------------------------
\* Every step keeps the invariant.
LEMMA RcptStep == SenderInv /\ RcptInv /\ [Next]_vars => RcptInv'
<1> SUFFICES ASSUME SenderInv, RcptInv, [Next]_vars PROVE RcptInv'
  OBVIOUS
<1>1. Numbered /\ FromIsSender
  BY DEF SenderInv
<1>2. ASSUME NEW ok \in VerifyUser, Auth(ok) PROVE RcptInv'
  BY <1>1, <1>2, IdleKeeps DEF Auth, histVars
<1>3. ASSUME NEW f \in Froms, Mail(f) PROVE RcptInv'
  BY <1>1, <1>3, IdleKeeps DEF Mail
<1>4. ASSUME NEW a \in Tos, Rcpt(a) PROVE RcptInv'
  BY <1>1, <1>4, RcptKeeps
<1>5. CASE Rset
  BY <1>1, <1>5, RsetKeeps
<1>6. ASSUME NEW results \in [1..to.n -> Results], NEW spam \in Analyze, Data(results, spam)
      PROVE  RcptInv'
  BY <1>1, <1>6, DataKeeps
<1>7. ASSUME NEW e \in Emails, Run(e) PROVE RcptInv'
  BY <1>1, <1>7, StartKeeps, SendOutKeeps, SendGroupKeeps DEF Run
<1>8. CASE UNCHANGED vars
  BY <1>1, <1>8, IdleKeeps DEF vars
<1>9. QED
  BY <1>2, <1>3, <1>4, <1>5, <1>6, <1>7, <1>8 DEF Next, Talk

\* Both invariants hold in every state.
LEMMA RcptInvariant == Spec => [](SenderInv /\ RcptInv)
<1>1. Init => SenderInv /\ RcptInv
  BY SenderStarts, RcptStarts
<1>2. SenderInv /\ RcptInv /\ [Next]_vars => (SenderInv /\ RcptInv)'
  BY SenderStep, RcptStep
<1>3. QED
  BY <1>1, <1>2, PTL DEF Spec

\* A copy goes to a recipient of its own email (session.go: Data, Reset), for
\* every client, every answer of the filters and every interleaving.
THEOREM RecipientsAreOwn == Spec => []OwnRecipients
<1>1. RcptInv => OwnRecipients
  BY DEF RcptInv, CopyInv, OwnRecipients
<1>2. QED
  BY <1>1, RcptInvariant, PTL

\* An email whose goroutine is done was handed over for everyone whom RCPT
\* accepted, or logged as one that cannot be rendered (relay.go: send).
THEOREM EveryoneIsServed == Spec => []EveryoneServed
<1>1. RcptInv => EveryoneServed
  BY DEF RcptInv, TaskInv, Served, EveryoneServed
<1>2. QED
  BY <1>1, RcptInvariant, PTL

\* What is stored for a subaddress is stored in its folder, below INBOX, or
\* where a filter put it (session.go: the loop of Data), and in Junk exactly when
\* the email is marked as spam (relay.go: relayInside).
THEOREM FolderIsKept == Spec => []FolderKept
<1>1. RcptInv => FolderKept
  BY DEF RcptInv, CopyInv, FolderKept, Below
<1>2. QED
  BY <1>1, RcptInvariant, PTL

\* The numbers of an email's recipients stay within the bound when the session
\* goes on to the next one.
LEMMA ResetTypes ==
  ASSUME TypeOK, RcptInv, email \in Emails, Reset
  PROVE  /\ email' \in 1..MaxEmails + 1
         /\ email' \in Emails => to'.n \in 0..MaxRcpts[email']
<1>1. email \in 1..MaxEmails /\ MaxEmails \in Nat
  BY EmailsAreBounded DEF Emails
<1>2. email' = email + 1 /\ to'.n = 0
  BY DEF Reset
<1>3. email' \in Emails => MaxRcpts[email'] \in Nat
  BY RcptsAreBounded DEF Emails
<1>4. QED
  BY <1>1, <1>2, <1>3

\* Every step keeps the types.
LEMMA TypeStep == SenderInv /\ RcptInv /\ TypeOK /\ [Next]_vars => TypeOK'
<1> SUFFICES ASSUME SenderInv, RcptInv, TypeOK, [Next]_vars PROVE TypeOK'
  OBVIOUS
<1> USE DEF TypeOK
<1>1. /\ Numbered /\ (phase = "mail" => email \in Emails)
      /\ DOMAIN named = Emails /\ DOMAIN task = Emails
  BY DEF SenderInv, FromIsSender, Numbered, RcptInv, SessionInv
<1>2. ASSUME NEW ok \in VerifyUser, Auth(ok) PROVE TypeOK'
  BY <1>2 DEF Auth, histVars
<1>3. ASSUME NEW f \in Froms, Mail(f) PROVE TypeOK'
  BY <1>3 DEF Mail
<1>4. ASSUME NEW a \in Tos, Rcpt(a) PROVE TypeOK'
  <2>1. email \in Emails /\ UNCHANGED <<user, from, phase, email, task>> /\ to.n < MaxRcpts[email]
    BY <1>1, <1>4 DEF Rcpt
  <2>2. to'.n = to.n + 1 /\ MaxRcpts[email] \in Nat
    BY <1>4, <2>1, RcptsAreBounded DEF Rcpt, RcptInv, SessionInv, Emails
  <2>3. to'.n \in 0..MaxRcpts[email]
    BY <2>1, <2>2
  <2>4. \A e \in Emails : named'[e] \subseteq Tos
    BY <1>1, <1>4 DEF Rcpt
  <2>5. QED
    BY <2>1, <2>3, <2>4
<1>5. CASE Rset
  <2>1. email \in Emails /\ Reset
    BY <1>1, <1>5 DEF Rset
  <2>2. \A e \in Emails : named'[e] \subseteq Tos
    BY <1>1, <1>5 DEF Rset
  <2>3. QED
    BY <1>5, <2>1, <2>2, ResetTypes DEF Rset
<1>6. ASSUME NEW results \in [1..to.n -> Results], NEW spam \in Analyze, Data(results, spam)
      PROVE  TypeOK'
  <2>1. email \in Emails /\ Reset /\ UNCHANGED <<user, from>>
    BY <1>1, <1>6 DEF Data
  <2>2. phase' \in {"open", "mail", "closed"}
    BY <1>6 DEF Data
  <2>3. \A e \in Emails : named'[e] \subseteq Tos
    BY <1>1, <1>6 DEF Data
  <2>4. \A e \in Emails : task'[e].st \in {"none", "ready", "running", "done"}
    BY <1>1, <1>6 DEF Data
  <2>5. QED
    BY <2>1, <2>2, <2>3, <2>4, ResetTypes
<1>7. ASSUME NEW e \in Emails, Run(e) PROVE TypeOK'
  <2>1. UNCHANGED <<user, from, to, phase, email, named>>
    BY <1>7, Zenon DEF Run, Start, SendOutside, SendGroup, SendInside, histVars
  <2>2. PICK w : Work(e, w)
    BY <1>7, Zenon DEF Run, Start, SendOutside, SendGroup, SendInside
  <2>3. task'[e].st \in {"running", "done"}
    BY <1>1, <2>2 DEF Work, Numbered
  <2>4. \A d \in Emails : task'[d].st \in {"none", "ready", "running", "done"}
    BY <1>1, <2>2, <2>3, WorkOnly
  <2>5. QED
    BY <2>1, <2>4
<1>8. CASE UNCHANGED vars
  BY <1>8, Zenon DEF vars
<1>9. QED
  BY <1>2, <1>3, <1>4, <1>5, <1>6, <1>7, <1>8 DEF Next, Talk

\* The bounds of the model are kept: the session has at most MaxRcpts recipients
\* and goes on past no more than MaxEmails emails (session.go: Rcpt, Reset).
THEOREM SessionTypes == Spec => []TypeOK
<1>1. Init => TypeOK
  <2>1. 1 \in Emails => MaxRcpts[1] \in Nat
    BY RcptsAreBounded DEF Emails
  <2>2. QED
    BY <2>1, EmailsAreBounded DEF Init, TypeOK, Idle
<1>2. QED
  BY <1>1, TypeStep, RcptInvariant, PTL DEF Spec
=============================================================================
