-------------------------- MODULE PrologueAckProofs --------------------------
(***************************************************************************)
(* What the members of a family say and are told: the invariant of         *)
(* PrologueProofs with a part about reports in flight, and the properties  *)
(* of Prologue that follow.  Then what becomes of a family: that it is a   *)
(* CloneFamily, that nobody fails when nothing does, and how far a member  *)
(* is from the end of its prologue.                                        *)
(***************************************************************************)
EXTENDS PrologueProofs, FiniteSetTheorems

\* A child's only report is the one it makes from its own port; Root's first
\* report is the only one there is until it has made it.
OwnReport(r) ==
  IF r.from = Root
    THEN r.role # "child" /\ (label[Root].role = "boot" => r = Report(Root))
    ELSE r.role = "child" /\ r.index = ChildIndex(r.from)

\* What the members are about to say.
RightLabels ==
  /\ label[Root].role # "child"
  /\ \A c \in Members \ {Root} :
       pc[c] \in {"send", "wait"} =>
         label[c].role = "child" /\ label[c].index = ChildIndex(c)

\* What is in flight was said by the member it names, and answers are answers.
RightReports ==
  /\ \A m \in outbound : OwnReport(m.rep)
  /\ \A m \in inbound : OwnReport(m.rep) /\ m.rep \in received
  /\ \A d \in Procs : \A a \in queue[d] : OwnReport(a.rep) /\ a.rep \in received

RInv == RightLabels /\ RightReports

\* Nothing late, nothing twice, no failing call.
Timely == faults \cap {"delay", "dup", "call"} = {}

FromOut(p)   == {m \in outbound : m.rep.from = p}
FromIn(p)    == {m \in inbound : m.rep.from = p}
FromQueue(p) == {a \in queue[p] : a.rep.from = p}

\* Nothing of a member is under way.
NothingLeft(p) == FromOut(p) = {} /\ FromIn(p) = {} /\ FromQueue(p) = {}

\* One thing of a member is under way at most: its report, or the answer to it.
OneUnderWay(p) ==
  /\ \A m \in FromOut(p) : m.rep = Report(p) /\ FromIn(p) = {} /\ FromQueue(p) = {}
  /\ \A m \in FromIn(p) : /\ m.rep = Report(p) /\ FromOut(p) = {} /\ FromQueue(p) = {}
                          /\ \A n \in FromIn(p) : n = m
  /\ \A a \in FromQueue(p) : /\ a.rep = Report(p) /\ FromOut(p) = {} /\ FromIn(p) = {}
                             /\ \A b \in FromQueue(p) : b = a

\* Only a member that waits has something under way.
OneAtATime ==
  Timely => \A p \in Procs : IF pc[p] = "wait" THEN OneUnderWay(p) ELSE NothingLeft(p)

\* Only those who return have been told.
Told == ChildKnowsItself /\ \A p \in Procs : isChild[p] => pc[p] = "ready"

-----------------------------------------------------------------------------
(* What a step may do to labels, reports and answers.                      *)

\* But for fork() and os_clone(), a step moves one member, within the prologue
\* or out of it, and leaves what the others say and count as it was.
LEMMA OwnStep ==
  ASSUME StateTypes, IInv, NEW p \in Procs, Act(p), ~ Fork(p), ~ Clone(p)
  PROVE  /\ pc[p] # "absent" /\ UNCHANGED family
         /\ \E l \in PCs \ {"absent"} : Goto(p, l)
         /\ \A q \in Procs \ {p} : label'[q] = label[q]
         /\ iter' = iter \/ NextIteration(p)
<1> USE DEF Act, StateTypes, Goto, Exit, Return, ReportAs, ChildRebinds, locals, family,
            PCs, Settled
<1>1. CASE Start(p) \/ Branch(p) \/ FinishAlone(p) \/ ForkFails(p) \/ ClockFails(p)
             \/ CloneFails(p) \/ SendReport(p) \/ Rebind(p)
  BY <1>1 DEF Start, Branch, FinishAlone, ForkFails, ClockFails, CloneFails, SendReport,
     Rebind
<1>2. CASE Forked(p) \/ Cloned(p) \/ SendFails(p) \/ Timeout(p) \/ ReceiveAnswer(p)
  <2>1. UNCHANGED family /\ \A q \in Procs \ {p} : label'[q] = label[q]
    BY <1>2 DEF Forked, Cloned, SendFails, Timeout, ReceiveAnswer, SendTimeReturns
  <2>2. iter' = iter \/ NextIteration(p)
    BY <1>2 DEF Forked, Cloned, SendFails, Timeout, ReceiveAnswer, SendTimeReturns,
       CloneReturns
  <2>3. pc[p] # "absent" /\ \E l \in PCs \ {"absent"} : Goto(p, l)
    BY <1>2 DEF Forked, Cloned, SendFails, Timeout, ReceiveAnswer, SendTimeReturns,
       NextIteration, CloneReturns
  <2> QED
    BY <2>1, <2>2, <2>3
<1> QED
  BY <1>1, <1>2

\* The index of a child's report is settled when the child is created.
LEMMA IndexStays ==
  ASSUME StateTypes, IInv, [Next]_vars, NEW c \in Members \ {Root}
  PROVE  c \in Members' \ {Root} /\ ChildIndex(c)' = ChildIndex(c)
<1>1. /\ Root \in Members /\ forkedBy[c] = Root /\ c \in Procs /\ Root \in Procs
      /\ opts[c].fork = Forking /\ ret[c] = (IF Forking THEN 0 ELSE 1)
      /\ pc[c] \notin {"absent", "start", "branch", "fork", "clone"}
  BY ConstantsAssumption DEF IInv, Places, Members
<1>2. ASSUME NEW p \in Procs, Step(p)
      PROVE  /\ pc'[c] # "absent" /\ opts'[c] = opts[c] /\ forkedBy'[c] = forkedBy[c]
             /\ domid'[c] = domid[c] /\ domid'[Root] = domid[Root]
             /\ Forking => iter'[c] = iter[c]
  <2> USE <1>1 DEF StateTypes, Members
  <2>1. CASE Fork(p)
    BY <2>1 DEF Fork
  <2>2. CASE Clone(p)
    BY <2>2 DEF Clone
  <2>3. CASE ~ Fork(p) /\ ~ Clone(p)
    <3>1. /\ UNCHANGED family /\ \E l \in PCs \ {"absent"} : Goto(p, l)
          /\ iter' = iter \/ NextIteration(p)
      BY <1>2, <2>3, OwnStep DEF Step
    <3>2. Forking => iter'[c] = iter[c]
      BY <3>1 DEF NextIteration
    <3> QED
      BY <3>1, <3>2 DEF family, Goto
  <2> QED
    BY <2>1, <2>2, <2>3
<1>3. ASSUME Environment \/ UNCHANGED vars
      PROVE  UNCHANGED << pc, opts, forkedBy, domid, iter >>
  BY <1>3 DEF Environment, Collect, AnswerArrives, Lose, members, vars, locals, family
<1>4. /\ pc'[c] # "absent" /\ opts'[c] = opts[c] /\ forkedBy'[c] = forkedBy[c]
      /\ domid'[c] = domid[c] /\ domid'[Root] = domid[Root]
      /\ Forking => iter'[c] = iter[c]
  BY <1>1, <1>2, <1>3 DEF Next
<1>5. myparentid(c)' = myparentid(c)
  BY <1>1, <1>4, ConstantsAssumption DEF myparentid
<1>6. c \in Members' \ {Root}
  BY <1>1, <1>4 DEF Members
<1>7. ChildIndex(c)' = IF opts'[c].fork THEN iter'[c] ELSE domid'[c] - myparentid(c)'
  BY DEF ChildIndex
<1>8. ChildIndex(c)' = ChildIndex(c)
  BY <1>1, <1>4, <1>5, <1>7 DEF ChildIndex
<1> QED
  BY <1>6, <1>8

\* Root keeps its options.
LEMMA RootKeepsItsOptions ==
  ASSUME StateTypes, IInv, [Next]_vars
  PROVE  opts'[Root] = opts[Root] /\ Forking' = Forking
<1>1. Root \in Procs /\ Root \in Members
  BY ConstantsAssumption DEF IInv, Places, Members
<1>2. ASSUME NEW p \in Procs, Act(p)
      PROVE  opts'[Root] = opts[Root]
  <2>1. CASE Fork(p) \/ Clone(p)
    BY <1>1, <2>1 DEF Fork, Clone, StateTypes
  <2> QED
    BY <1>2, <2>1, OwnStep DEF family
<1>3. ASSUME Environment \/ UNCHANGED vars
      PROVE  opts' = opts
  BY <1>3 DEF Environment, Collect, AnswerArrives, Lose, members, vars, family
<1> QED
  BY <1>2, <1>3 DEF Next, Step, Forking

\* A member reports from one port as long as it lives.
LEMMA PortStays ==
  ASSUME StateTypes, IInv, [Next]_vars, NEW c \in Members
  PROVE  c \in Members' /\ ReportPort(c)' = ReportPort(c)
<1>1. IInv'
  BY NextInv
<1>2. Root \in Members' /\ Root # NONE
  BY <1>1, ConstantsAssumption DEF IInv, Places, Members
<1>3. Forking' = Forking
  BY RootKeepsItsOptions
<1>4. CASE c # Root
  <2>1. c \in Members' /\ ChildIndex(c)' = ChildIndex(c)
    BY <1>4, IndexStays
  <2>2. c \in Procs
    BY DEF Members
  <2>3. /\ opts[c].fork = Forking /\ forkedBy[c] = Root
        /\ opts'[c].fork = Forking' /\ forkedBy'[c] = Root
    BY <1>1, <1>4, <2>1, <2>2 DEF IInv, Places
  <2>4. ChildIndex(c) = IF Forking THEN iter[c] ELSE domid[c] - domid[Root]
    BY <1>2, <2>3 DEF ChildIndex, myparentid
  <2>5. ChildIndex(c)' = IF Forking THEN iter'[c] ELSE domid'[c] - domid'[Root]
    BY <1>2, <1>3, <2>3 DEF ChildIndex, myparentid
  <2> QED
    BY <1>3, <1>4, <2>1, <2>4, <2>5 DEF ReportPort
<1>5. CASE c = Root
  BY <1>2, <1>5 DEF ReportPort
<1> QED
  BY <1>4, <1>5

\* Reports and answers come from somewhere: a datagram from a member that
\* reports, an answer from the collector, which then has the report.
LEMMA ReportsFlow ==
  ASSUME StateTypes, IInv, [Next]_vars
  PROVE  /\ received \subseteq received'
         /\ \A m \in outbound' :
              m \in outbound \/ \E p \in Reporting : pc[p] = "send" /\ m = Datagram(p)
         /\ \A m \in inbound' :
              m \in inbound \/ (m.rep \in received' /\ \E x \in outbound : x.rep = m.rep)
         /\ \A d \in Procs : \A a \in queue'[d] :
              \/ \E e \in Procs : a \in queue[e]
              \/ \E x \in inbound : x.rep = a.rep
<1> DEFINE Still == UNCHANGED network /\ \A d \in Procs : \A a \in queue'[d] :
                                           \E e \in Procs : a \in queue[e]
<1> USE DEF StateTypes
<1>1. ASSUME NEW p \in Procs, Step(p), ~ SendReport(p)
      PROVE  Still
  <2> USE DEF Step, Act
  <2>1. CASE Start(p) \/ Rebind(p)
    BY <2>1 DEF Start, Rebind, SocketInit
  <2>2. CASE \/ Branch(p) \/ FinishAlone(p) \/ ForkFails(p) \/ ClockFails(p)
             \/ CloneFails(p) \/ SendFails(p) \/ Timeout(p) \/ Forked(p) \/ Cloned(p)
    BY <2>2 DEF Branch, FinishAlone, ForkFails, ClockFails, CloneFails, SendFails,
       Timeout, Forked, Cloned
  <2>3. CASE ReceiveAnswer(p)
    <3>1. su[p] = p
      BY <2>3 DEF ReceiveAnswer, IInv, OwnSockets, Reporting
    <3>2. PICK a \in queue[p] : queue' = [queue EXCEPT ![p] = @ \ {a}]
      BY <2>3, <3>1 DEF ReceiveAnswer
    <3> QED
      BY <2>3, <3>2 DEF ReceiveAnswer
  <2>4. ASSUME UNCHANGED network, NEW C \in SUBSET Procs, Inherit(p, C)
        PROVE  Still
    <3>1. CASE SharedKernel \/ su[p] = NONE
      BY <2>4, <3>1 DEF Inherit
    <3>2. CASE ~ (SharedKernel \/ su[p] = NONE)
      <4>1. su[p] \in Procs
        BY <3>2
      <4>2. queue' = [q \in Procs |-> IF q \in C THEN queue[su[p]] ELSE queue[q]]
        BY <2>4, <3>2 DEF Inherit
      <4> QED
        BY <2>4, <4>1, <4>2
    <3> QED
      BY <3>1, <3>2
  <2>5. CASE Fork(p)
    <3>1. PICK c \in Procs : Inherit(p, {c})
      BY <2>5 DEF Fork
    <3>2. {c} \in SUBSET Procs /\ UNCHANGED network
      BY <2>5 DEF Fork
    <3> QED
      BY <2>4, <3>1, <3>2
  <2>6. CASE Clone(p)
    <3>1. PICK C \in SUBSET (Procs \ Members) : Inherit(p, C)
      BY <2>6 DEF Clone
    <3>2. C \in SUBSET Procs /\ UNCHANGED network
      BY <2>6 DEF Clone
    <3> QED
      BY <2>4, <3>1, <3>2
  <2> QED
    BY <1>1, <2>1, <2>2, <2>3, <2>5, <2>6
<1>2. ASSUME NEW p \in Procs, SendReport(p)
      PROVE  /\ outbound' = outbound \cup {Datagram(p)} /\ p \in Reporting
             /\ pc[p] = "send" /\ UNCHANGED << inbound, received, queue >>
  BY <1>2 DEF SendReport, Reporting
<1>3. ASSUME NEW m \in outbound, Collect(m)
      PROVE  /\ outbound' \subseteq outbound /\ received' = received \cup {m.rep}
             /\ \A x \in inbound' : x \in inbound \/ x.rep = m.rep
             /\ UNCHANGED queue
  BY <1>3 DEF Collect
<1>4. ASSUME NEW m \in inbound, AnswerArrives(m)
      PROVE  /\ inbound' \subseteq inbound /\ UNCHANGED << outbound, received >>
             /\ \A d \in Procs : \A a \in queue'[d] : a \in queue[d] \/ a.rep = m.rep
  <2>1. \/ UNCHANGED queue
        \/ \E d \in Procs :
             queue' = [queue EXCEPT ![d] = @ \cup {[rep |-> m.rep, len |-> m.len]}]
    BY <1>4 DEF AnswerArrives
  <2>2. \A d \in Procs : \A a \in queue'[d] : a \in queue[d] \/ a.rep = m.rep
    BY <2>1
  <2> QED
    BY <1>4, <2>2 DEF AnswerArrives
<1>5. ASSUME Lose
      PROVE  /\ outbound' \subseteq outbound /\ inbound' \subseteq inbound
             /\ UNCHANGED << received, queue >>
  BY <1>5 DEF Lose
<1>6. CASE Environment
  BY <1>3, <1>4, <1>5, <1>6 DEF Environment
<1>7. CASE UNCHANGED vars
  BY <1>7 DEF vars, network
<1>8. CASE \E p \in Procs : Step(p)
  BY <1>1, <1>2, <1>8 DEF network
<1> QED
  BY <1>6, <1>7, <1>8 DEF Next

\* A member that steps is Root, or a child that has its label once it reports.
LEMMA LabelsStay ==
  ASSUME StateTypes, IInv, RightLabels, [Next]_vars
  PROVE  /\ RightLabels'
         /\ label'[Root].role = "boot" => label'[Root] = label[Root]
         /\ label[Root].role # "boot" => label'[Root].role # "boot"
<1>1. /\ Root \in Members /\ Root \in Procs
      /\ \A c \in Procs : /\ pc[c] \in {"forked"} => opts[c].fork /\ Forking
                          /\ pc[c] \in {"cloned"} => ~ Forking
      /\ Forking => ret[Root] # 0
      /\ ~ Forking => ret[Root] # 1
      /\ \A c \in Members \ {Root} : ret[c] = (IF Forking THEN 0 ELSE 1)
  BY ConstantsAssumption DEF IInv, Places, Members
<1> DEFINE Named(c) == label'[c].role = "child" /\ label'[c].index = ChildIndex(c)'
           Kept(c)  == /\ label'[c] = label[c]
                       /\ pc'[c] \in {"send", "wait"} => pc[c] \in {"send", "wait"}
<1>2. ASSUME NEW p \in Procs, Step(p), ~ Fork(p), ~ Clone(p)
      PROVE  /\ \A c \in Members \ {Root} : Kept(c) \/ Named(c)
             /\ label'[Root] = label[Root] \/ label'[Root].role = "parent"
  <2> USE <1>1, <1>2 DEF StateTypes, Step, Act, Goto, Exit, Return, ReportAs,
          ChildRebinds, locals, Members, Settled
  <2>1. CASE Start(p) \/ Branch(p) \/ FinishAlone(p) \/ ForkFails(p) \/ ClockFails(p)
              \/ CloneFails(p) \/ SendReport(p)
    BY <2>1 DEF Start, Branch, FinishAlone, ForkFails, ClockFails, CloneFails,
       SendReport, IInv, Places
  <2>2. CASE SendFails(p) \/ Timeout(p) \/ ReceiveAnswer(p)
    BY <2>2 DEF SendFails, Timeout, ReceiveAnswer, SendTimeReturns, NextIteration,
       CloneReturns
  <2>3. CASE Forked(p) \/ Cloned(p)
    BY <2>3 DEF Forked, Cloned, NextIteration, CloneReturns
  <2>4. CASE Rebind(p)
    <3>1. p # Root
      BY <2>4 DEF Rebind, IInv, Places
    <3>2. CASE Exit(p) /\ UNCHANGED << queue, label >>
      BY <3>1, <3>2
    <3>3. CASE SocketInit(p, myport[p]) /\ ReportAs(p, "child", ChildIndex(p))
      <4>1. label'[p] = [role |-> "child", index |-> ChildIndex(p)]
        BY <3>3
      <4>2. p \in Members \ {Root}
        BY <2>4, <3>1 DEF Rebind
      <4>3. ChildIndex(p)' = ChildIndex(p)
        BY <4>2, IndexStays
      <4>4. Named(p)
        BY <4>1, <4>3
      <4>5. \A q \in Procs \ {p} : label'[q] = label[q] /\ pc'[q] = pc[q]
        BY <3>3
      <4> QED
        BY <3>1, <4>4, <4>5
    <3> QED
      BY <2>4, <3>2, <3>3 DEF Rebind
  <2> QED
    BY <2>1, <2>2, <2>3, <2>4
<1>3. ASSUME \/ \E p \in Procs : Fork(p) \/ Clone(p)
             \/ Environment \/ UNCHANGED vars
      PROVE  /\ \A c \in Members : Kept(c)
             /\ \A c \in Members' \ Members : pc'[c] \in {"forked", "cloned"}
  <2>1. ASSUME NEW p \in Procs, Fork(p)
        PROVE  /\ \A c \in Members : Kept(c)
               /\ \A c \in Members' \ Members : pc'[c] \in {"forked", "cloned"}
    BY <2>1 DEF Fork, StateTypes, Members
  <2>2. ASSUME NEW p \in Procs, Clone(p)
        PROVE  /\ \A c \in Members : Kept(c)
               /\ \A c \in Members' \ Members : pc'[c] \in {"forked", "cloned"}
    BY <2>2 DEF Clone, StateTypes, Members
  <2>3. Environment \/ UNCHANGED vars => UNCHANGED << pc, label >>
    BY DEF Environment, Collect, AnswerArrives, Lose, members, vars, locals
  <2> QED
    BY <1>3, <2>1, <2>2, <2>3 DEF Members
<1>4. ASSUME NEW p \in Procs, Step(p), ~ Fork(p), ~ Clone(p)
      PROVE  Members' \subseteq Members
  <2> USE <1>4 DEF StateTypes, Step, Act, Goto, Exit, Return, ReportAs, ChildRebinds,
          Members, Settled
  <2>1. CASE Start(p) \/ Branch(p) \/ FinishAlone(p) \/ ForkFails(p) \/ ClockFails(p)
              \/ CloneFails(p) \/ SendReport(p) \/ Rebind(p)
    BY <2>1 DEF Start, Branch, FinishAlone, ForkFails, ClockFails, CloneFails,
       SendReport, Rebind
  <2>2. CASE SendFails(p) \/ Timeout(p) \/ ReceiveAnswer(p)
    BY <2>2 DEF SendFails, Timeout, ReceiveAnswer, SendTimeReturns, NextIteration,
       CloneReturns
  <2>3. CASE Forked(p) \/ Cloned(p)
    BY <2>3 DEF Forked, Cloned, NextIteration, CloneReturns
  <2> QED
    BY <2>1, <2>2, <2>3
<1>5. /\ \A c \in Members \ {Root} : Kept(c) \/ Named(c)
      /\ label'[Root] = label[Root] \/ label'[Root].role = "parent"
      /\ \A c \in Members' \ Members : pc'[c] \in {"forked", "cloned"}
  BY <1>1, <1>2, <1>3, <1>4 DEF Next, Step
<1>6. ASSUME NEW c \in Members' \ {Root}, pc'[c] \in {"send", "wait"}
      PROVE  label'[c].role = "child" /\ label'[c].index = ChildIndex(c)'
  <2>1. c \in Members \ {Root}
    BY <1>5, <1>6
  <2>2. ChildIndex(c)' = ChildIndex(c)
    BY <2>1, IndexStays
  <2> QED
    BY <1>5, <1>6, <2>1, <2>2 DEF RightLabels
<1>7. label'[Root].role # "child"
  BY <1>5 DEF RightLabels
<1> QED
  BY <1>5, <1>6, <1>7 DEF RightLabels

\* A report in flight stays the report of the member it names.
LEMMA OwnReportStays ==
  ASSUME StateTypes, IInv, RightLabels, [Next]_vars, NEW r, r.from \in Members,
         OwnReport(r)
  PROVE  OwnReport(r)'
<1>1. CASE r.from = Root
  <2>1. label'[Root].role = "boot" => Report(Root)' = Report(Root)
    BY LabelsStay DEF Report
  <2> QED
    BY <1>1, <2>1, LabelsStay DEF OwnReport
<1>2. CASE r.from # Root
  <2>1. ChildIndex(r.from)' = ChildIndex(r.from)
    BY <1>2, IndexStays
  <2> QED
    BY <1>2, <2>1 DEF OwnReport
<1> QED
  BY <1>1, <1>2

\* Every step keeps the labels and the reports right.
LEMMA NextReports ==
  ASSUME StateTypes, IInv, RInv, [Next]_vars
  PROVE  RInv'
<1>1. RightLabels /\ RightLabels'
  BY LabelsStay DEF RInv
<1>2. /\ \A m \in outbound : OwnReport(m.rep) /\ m.rep.from \in Members
      /\ \A m \in inbound : OwnReport(m.rep) /\ m.rep.from \in Members /\ m.rep \in received
      /\ \A d \in Procs : \A a \in queue[d] :
           OwnReport(a.rep) /\ a.rep.from \in Members /\ a.rep \in received
  BY DEF RInv, RightReports, IInv, InFlight
<1>3. ASSUME NEW p \in Reporting, pc[p] = "send", NEW m, m = Datagram(p)
      PROVE  OwnReport(m.rep)'
  <2>1. p \in Members /\ m.rep.from = p /\ m.rep = Report(p)
    BY <1>3 DEF Reporting, Members, Report, Datagram
  <2>2. OwnReport(m.rep)
    BY <1>1, <1>3, <2>1 DEF RightLabels, OwnReport, Report
  <2> QED
    BY <1>1, <2>1, <2>2, OwnReportStays
<1> HIDE DEF OwnReport
<1>4. \A m \in outbound' : OwnReport(m.rep)'
  <2> SUFFICES ASSUME NEW m \in outbound' PROVE OwnReport(m.rep)'
    OBVIOUS
  <2>1. m \in outbound \/ \E p \in Reporting : pc[p] = "send" /\ m = Datagram(p)
    BY ReportsFlow
  <2> QED
    BY <1>1, <1>2, <1>3, <2>1, OwnReportStays
<1>5. \A m \in inbound' : OwnReport(m.rep)' /\ m.rep \in received'
  <2> SUFFICES ASSUME NEW m \in inbound' PROVE OwnReport(m.rep)' /\ m.rep \in received'
    OBVIOUS
  <2>1. /\ received \subseteq received'
        /\ m \in inbound \/ (m.rep \in received' /\ \E x \in outbound : x.rep = m.rep)
    BY ReportsFlow
  <2>2. OwnReport(m.rep) /\ m.rep.from \in Members /\ m.rep \in received'
    BY <1>2, <2>1
  <2> QED
    BY <1>1, <2>2, OwnReportStays
<1>6. \A d \in Procs : \A a \in queue'[d] : OwnReport(a.rep)' /\ a.rep \in received'
  <2> SUFFICES ASSUME NEW d \in Procs, NEW a \in queue'[d]
               PROVE  OwnReport(a.rep)' /\ a.rep \in received'
    OBVIOUS
  <2>1. /\ received \subseteq received'
        /\ \/ \E e \in Procs : a \in queue[e]
           \/ \E x \in inbound : x.rep = a.rep
    BY ReportsFlow
  <2>2. OwnReport(a.rep) /\ a.rep.from \in Members /\ a.rep \in received'
    BY <1>2, <2>1
  <2> QED
    BY <1>1, <2>2, OwnReportStays
<1> QED
  BY <1>1, <1>4, <1>5, <1>6 DEF RInv, RightReports

\* Nobody has said anything.
LEMMA InitReports == Init => RInv
<1> SUFFICES ASSUME Init PROVE RInv
  OBVIOUS
<1>1. Members = {Root} /\ label[Root].role = "boot" /\ Root \in Procs
  BY ConstantsAssumption DEF Init, Members
<1>2. outbound = {} /\ inbound = {} /\ \A d \in Procs : queue[d] = {}
  BY DEF Init
<1> QED
  BY <1>1, <1>2 DEF RInv, RightLabels, RightReports

-----------------------------------------------------------------------------
(* What it says of acknowledgements and indices.                           *)

\* send_time() returns 0 only with an answer in hand.
LEMMA AckedGrows ==
  ASSUME [Next]_vars
  PROVE  acked' = acked \/ \E p \in Procs : ReceiveAnswer(p) /\ acked' = acked \cup {Report(p)}
<1>1. ASSUME NEW p \in Procs, Step(p)
      PROVE  acked' = acked \/ (ReceiveAnswer(p) /\ acked' = acked \cup {Report(p)})
  <2> USE <1>1 DEF Step, Act
  <2>1. CASE Start(p) \/ Branch(p) \/ FinishAlone(p) \/ ForkFails(p) \/ ClockFails(p)
              \/ CloneFails(p) \/ SendReport(p) \/ Rebind(p) \/ Fork(p) \/ Clone(p)
              \/ Forked(p) \/ Cloned(p)
    BY <2>1 DEF Start, Branch, FinishAlone, ForkFails, ClockFails, CloneFails,
       SendReport, Rebind, Fork, Clone, Forked, Cloned, history
  <2>2. CASE SendFails(p) \/ Timeout(p) \/ ReceiveAnswer(p)
    BY <2>2 DEF SendFails, Timeout, ReceiveAnswer, SendTimeReturns
  <2> QED
    BY <2>1, <2>2
<1>2. Environment \/ UNCHANGED vars => acked' = acked
  BY DEF Environment, Collect, AnswerArrives, Lose, members, vars, history
<1> QED
  BY <1>1, <1>2 DEF Next

\* The answer that send_time() takes for a first report answers that report.
LEMMA NextFirstAck ==
  ASSUME StateTypes, IInv, RInv, FirstAckIsTrue, [Next]_vars
  PROVE  FirstAckIsTrue'
<1>1. ASSUME NEW p \in Procs, ReceiveAnswer(p), Report(p).role # "parent"
      PROVE  Report(p) \in received
  <2>1. p \in Reporting /\ p \in Members
    BY <1>1 DEF ReceiveAnswer, Reporting, Members
  <2>2. su[p] = p /\ port[p] = ReportPort(p)
    BY <2>1 DEF IInv, OwnSockets
  <2>3. PICK a \in queue[p] : TRUE
    BY <1>1, <2>2 DEF ReceiveAnswer
  <2>4. /\ a.rep.from \in Members /\ ReportPort(a.rep.from) = ReportPort(p)
        /\ OwnReport(a.rep) /\ a.rep \in received
    BY <2>1, <2>2, <2>3 DEF IInv, InFlight, RInv, RightReports, Members
  <2>5. a.rep.from = p
    BY <2>1, <2>4, ReportPortsDiffer
  <2>6. a.rep \in Reports
    BY <2>4 DEF StateTypes
  <2>7. CASE p = Root
    <3>1. label[Root].role = "boot"
      BY <1>1, <2>7 DEF Report, RInv, RightLabels, StateTypes, Labels, Roles
    <3> QED
      BY <2>4, <2>5, <2>7, <3>1 DEF OwnReport
  <2>8. CASE p # Root
    <3>1. label[p].role = "child" /\ label[p].index = ChildIndex(p)
      BY <1>1, <2>1, <2>8 DEF RInv, RightLabels, ReceiveAnswer
    <3>2. a.rep.role = "child" /\ a.rep.index = ChildIndex(p)
      BY <2>4, <2>5, <2>8 DEF OwnReport
    <3>3. a.rep = [from |-> p, role |-> "child", index |-> ChildIndex(p)]
      BY <2>5, <2>6, <3>2 DEF Reports
    <3>4. Report(p) = a.rep
      BY <3>1, <3>3 DEF Report
    <3> QED
      BY <2>4, <3>4
  <2> QED
    BY <2>7, <2>8
<1>2. acked' = acked \/ \E p \in Procs : ReceiveAnswer(p) /\ acked' = acked \cup {Report(p)}
  BY AckedGrows
<1>3. received \subseteq received'
  BY ReportsFlow
<1> QED
  BY <1>1, <1>2, <1>3 DEF FirstAckIsTrue

\* The index of a child is what its port is counted down by.
LEMMA InvIndexNamesPort ==
  ASSUME StateTypes, IInv, RInv
  PROVE  IndexNamesPort
<1> SUFFICES ASSUME NEW m \in outbound, m.rep.role = "child"
             PROVE  m.port = Below(PORT_PARENT, IF opts[m.rep.from].fork
                                                  THEN m.rep.index + 1
                                                  ELSE m.rep.index)
  BY DEF IndexNamesPort
<1> DEFINE c == m.rep.from
<1>1. /\ c \in Members /\ m.port = ReportPort(c) /\ OwnReport(m.rep)
      /\ Members \subseteq Procs
  BY DEF IInv, InFlight, RInv, RightReports, Members
<1>2. c # Root /\ m.rep.index = ChildIndex(c)
  BY <1>1 DEF OwnReport
<1>3. /\ Root \in Members /\ opts[c].fork = Forking /\ forkedBy[c] = Root
      /\ Root # NONE
  BY <1>1, <1>2, ConstantsAssumption DEF IInv, Places, Members
<1> HIDE DEF c
<1>4. CASE Forking
  <2>1. iter[c] \in Nat /\ iter[c] < ChildrenNum
    BY <1>1, <1>2, <1>4, ChildrenNumBounds DEF StateTypes, IInv, Numbers
  <2>2. ReportPort(c) = PORT_PARENT - (iter[c] + 1)
    BY <1>2, <1>4, <2>1, ParentPort DEF ReportPort
  <2>3. m.rep.index = iter[c]
    BY <1>2, <1>3, <1>4 DEF ChildIndex
  <2>4. 0 =< PORT_PARENT - (iter[c] + 1) /\ PORT_PARENT - (iter[c] + 1) < 65536
    BY <2>1, ChildrenNumBounds, ParentPort
  <2>5. Below(PORT_PARENT, iter[c] + 1) = PORT_PARENT - (iter[c] + 1)
    BY <2>1, <2>4, BelowExact, ParentPort
  <2> QED
    BY <1>1, <1>3, <1>4, <2>2, <2>3, <2>5 DEF c
<1>5. CASE ~ Forking
  <2>1. /\ domid[c] \in Int /\ 1 =< domid[c] /\ domid[c] =< 32751
        /\ domid[Root] \in Int /\ 1 =< domid[Root] /\ domid[Root] =< 32751
    BY <1>1, <1>3, <1>5, DomIdBounds DEF IInv, Numbers
  <2>2. m.rep.index = domid[c] - domid[Root]
    BY <1>2, <1>3, <1>5 DEF ChildIndex, myparentid
  <2>3. ReportPort(c) = PORT_PARENT - m.rep.index
    BY <1>2, <1>5, <2>2 DEF ReportPort
  <2>4. /\ m.rep.index \in Int
        /\ 0 =< PORT_PARENT - m.rep.index /\ PORT_PARENT - m.rep.index < 65536
    BY <2>1, <2>2, ParentPort
  <2>5. Below(PORT_PARENT, m.rep.index) = PORT_PARENT - m.rep.index
    BY <2>4, BelowExact, ParentPort
  <2> QED
    BY <1>1, <1>3, <1>5, <2>3, <2>5 DEF c
<1> QED
  BY <1>4, <1>5

-----------------------------------------------------------------------------
(* Who is told to be a child.                                              *)

\* Root leaves the prologue with what it came with; what fork() or os_clone()
\* returned to it tells a member that it is a child.
LEMMA NextTold ==
  ASSUME StateTypes, IInv, Told, [Next]_vars
  PROVE  Told'
<1>1. /\ Root \in Members /\ Root \in Procs /\ forkedBy[Root] = NONE /\ NONE \notin Procs
      /\ \A q \in Members \ {Root} : /\ forkedBy[q] = Root
                                     /\ ret[q] = (IF Forking THEN 0 ELSE 1)
      /\ Forking => ret[Root] # 0
      /\ ~ Forking => ret[Root] # 1
      /\ \A q \in Procs : opts[q].fork = Forking
  BY ConstantsAssumption DEF IInv, Places, Members
<1>2. \A q \in Procs : /\ pc[q] = "ready" => isChild[q] = (forkedBy[q] # NONE)
                       /\ isChild[q] => pc[q] = "ready"
  BY DEF Told, ChildKnowsItself
<1> DEFINE Fine(q) == /\ pc'[q] = "ready" => isChild'[q] = (forkedBy'[q] # NONE)
                      /\ isChild'[q] => pc'[q] = "ready"
<1>3. ASSUME NEW p \in Procs, Step(p)
      PROVE  \A q \in Procs : Fine(q)
  <2> USE <1>1, <1>2, <1>3 DEF StateTypes, Step, Act, Goto, Exit, Return, ReportAs,
          ChildRebinds, family, locals, Members, Settled
  <2>1. ASSUME NextIteration(p), UNCHANGED family, pc[p] \notin {"absent", "ready"},
               opts[p].fork
        PROVE  \A q \in Procs : Fine(q)
    <3>1. p \in Members /\ Forking
      BY <2>1
    <3>2. CASE ret[p] = 0 /\ Return(p, TRUE)
      <4>1. forkedBy'[p] # NONE /\ isChild'[p] /\ pc'[p] = "ready"
        BY <2>1, <3>1, <3>2
      <4>2. \A q \in Procs \ {p} : pc'[q] = pc[q] /\ isChild'[q] = isChild[q]
                                  /\ forkedBy'[q] = forkedBy[q]
        BY <2>1, <3>2
      <4>3. isChild'[p] \in BOOLEAN
        BY <3>2
      <4>4. Fine(p)
        BY <4>1, <4>3
      <4>5. \A q \in Procs \ {p} : Fine(q)
        BY <4>2
      <4> QED
        BY <4>4, <4>5
    <3>3. CASE ret[p] # 0 /\ Return(p, FALSE)
      BY <2>1, <3>1, <3>3
    <3>4. CASE Goto(p, "fork") /\ UNCHANGED << isChild, sockets >>
      BY <2>1, <3>4
    <3> QED
      BY <2>1, <3>2, <3>3, <3>4 DEF NextIteration
  <2>2. ASSUME CloneReturns(p), UNCHANGED family, pc[p] \notin {"absent", "ready"},
               ~ opts[p].fork
        PROVE  \A q \in Procs : Fine(q)
    <3>1. p \in Members /\ ~ Forking
      BY <2>2
    <3>2. (ret[p] = 1) = (forkedBy[p] # NONE)
      BY <3>1
    <3>3. isChild' = [isChild EXCEPT ![p] = (ret[p] = 1)] /\ pc' = [pc EXCEPT ![p] = "ready"]
      BY <2>2 DEF CloneReturns
    <3>4. isChild'[p] = (forkedBy'[p] # NONE) /\ pc'[p] = "ready"
      BY <2>2, <3>2, <3>3
    <3> QED
      BY <2>2, <3>3, <3>4
  <2>3. CASE Start(p) \/ Branch(p) \/ SendReport(p) \/ Rebind(p)
    BY <2>3 DEF Start, Branch, SendReport, Rebind
  <2>4. CASE ClockFails(p) \/ CloneFails(p)
    BY <2>4 DEF ClockFails, CloneFails
  <2>5. CASE FinishAlone(p) \/ ForkFails(p)
    <3>1. p = Root /\ pc[p] # "ready"
      BY <2>5 DEF FinishAlone, ForkFails, IInv, Places
    <3> QED
      BY <2>5, <3>1 DEF FinishAlone, ForkFails
  <2>6. CASE SendFails(p) \/ Timeout(p) \/ ReceiveAnswer(p)
    <3>1. /\ pc[p] \notin {"absent", "ready"}
          /\ \/ \E ok \in BOOLEAN : SendTimeReturns(p, ok)
             \/ Goto(p, "send") /\ UNCHANGED << isChild, family >>
      BY <2>6 DEF SendFails, Timeout, ReceiveAnswer
    <3>2. ASSUME NEW ok \in BOOLEAN, SendTimeReturns(p, ok)
          PROVE  \A q \in Procs : Fine(q)
      BY <2>1, <2>2, <3>1, <3>2 DEF SendTimeReturns
    <3> QED
      BY <3>1, <3>2
  <2>7. CASE Forked(p)
    <3>1. opts[p].fork /\ pc[p] \notin {"absent", "ready"} /\ UNCHANGED family
      BY <2>7 DEF Forked, IInv, Places
    <3> QED
      BY <2>1, <2>7, <3>1 DEF Forked
  <2>8. CASE Cloned(p)
    <3>1. ~ opts[p].fork /\ pc[p] \notin {"absent", "ready"} /\ UNCHANGED family
      BY <2>8 DEF Cloned, IInv, Places
    <3> QED
      BY <2>2, <2>8, <3>1 DEF Cloned
  <2>9. CASE Fork(p)
    <3>1. PICK c \in Procs \ Members :
            /\ pc' = [pc EXCEPT ![p] = "forked", ![c] = "forked"]
            /\ forkedBy' = [forkedBy EXCEPT ![c] = p]
      BY <2>9 DEF Fork
    <3> QED
      BY <2>9, <3>1 DEF Fork
  <2>10. CASE Clone(p)
    <3>1. PICK C \in SUBSET (Procs \ Members) :
            /\ pc' = [q \in Procs |-> IF q \in C \cup {p} THEN "cloned" ELSE pc[q]]
            /\ forkedBy' = [q \in Procs |-> IF q \in C THEN p ELSE forkedBy[q]]
      BY <2>10 DEF Clone
    <3>2. UNCHANGED isChild /\ pc[p] = "clone" /\ \A q \in C : pc[q] = "absent"
      BY <2>10 DEF Clone
    <3>3. ASSUME NEW q \in Procs
          PROVE  \/ pc'[q] = pc[q] /\ forkedBy'[q] = forkedBy[q]
                 \/ pc'[q] = "cloned" /\ pc[q] # "ready"
      <4>1. CASE q \in C \cup {p}
        BY <3>1, <3>2, <4>1
      <4>2. CASE q \notin C \cup {p}
        BY <3>1, <4>2
      <4> QED
        BY <4>1, <4>2
    <3> QED
      BY <3>2, <3>3
  <2> QED
    BY <2>3, <2>4, <2>5, <2>6, <2>7, <2>8, <2>9, <2>10
<1>4. ASSUME Environment \/ UNCHANGED vars
      PROVE  UNCHANGED << pc, isChild, forkedBy >>
  BY <1>4 DEF Environment, Collect, AnswerArrives, Lose, members, vars, family
<1>5. \A q \in Procs : Fine(q)
  BY <1>2, <1>3, <1>4 DEF Next
<1> QED
  BY <1>5 DEF Told, ChildKnowsItself

-----------------------------------------------------------------------------
(* Acknowledgements when answers come in time and once.                    *)

Orderly(q) == IF pc[q] = "wait" THEN OneUnderWay(q) ELSE NothingLeft(q)

\* Less under way, and the member where it was, is still one at most.
LEMMA OrderlyStays ==
  ASSUME NEW q \in Procs, Orderly(q), pc'[q] = "wait" <=> pc[q] = "wait",
         pc[q] = "wait" => label'[q] = label[q],
         FromOut(q)' \subseteq FromOut(q), FromIn(q)' \subseteq FromIn(q),
         FromQueue(q)' \subseteq FromQueue(q)
  PROVE  Orderly(q)'
<1>1. CASE pc[q] = "wait"
  <2>1. Report(q)' = Report(q)
    BY <1>1 DEF Report
  <2> QED
    BY <1>1, <2>1 DEF Orderly, OneUnderWay
<1>2. CASE pc[q] # "wait"
  BY <1>2 DEF Orderly, NothingLeft
<1> QED
  BY <1>1, <1>2

\* The steps that are not about a report.
LEMMA OtherStepsOrderly ==
  ASSUME StateTypes, IInv, \A q \in Procs : Orderly(q), NEW p \in Procs, Act(p),
         ~ SendReport(p), ~ SendFails(p), ~ ReceiveAnswer(p), ~ Timeout(p)
  PROVE  \A q \in Procs : Orderly(q)'
<1> SUFFICES ASSUME NEW q \in Procs PROVE Orderly(q)'
  OBVIOUS
<1>1. ASSUME UNCHANGED network, pc'[q] = "wait" <=> pc[q] = "wait",
             pc[q] = "wait" => label'[q] = label[q],
             \A a \in queue'[q] : a \in queue[q] \/ a.rep.from # q
      PROVE  Orderly(q)'
  <2>1. /\ FromOut(q)' \subseteq FromOut(q) /\ FromIn(q)' \subseteq FromIn(q)
        /\ FromQueue(q)' \subseteq FromQueue(q)
    BY <1>1 DEF network, FromOut, FromIn, FromQueue
  <2> QED
    BY <1>1, <2>1, OrderlyStays
<1>2. CASE Fork(p) \/ Clone(p)
  <2>1. PICK C \in SUBSET (Procs \ Members) :
          /\ Inherit(p, C)
          /\ pc'[q] = (IF q \in C \cup {p} THEN IF Fork(p) THEN "forked" ELSE "cloned"
                                           ELSE pc[q])
          /\ q \notin C => label'[q] = label[q]
    <3>1. CASE Fork(p)
      <4>1. PICK c \in Procs \ Members :
              /\ pc' = [pc EXCEPT ![p] = "forked", ![c] = "forked"]
              /\ label' = [label EXCEPT ![c] = label[p]]
              /\ Inherit(p, {c})
        BY <3>1 DEF Fork
      <4>2. {c} \in SUBSET (Procs \ Members)
        BY <4>1
      <4>3. /\ pc'[q] = (IF q \in {c} \cup {p} THEN "forked" ELSE pc[q])
            /\ q \notin {c} => label'[q] = label[q]
        BY <4>1 DEF StateTypes
      <4> QED
        BY <3>1, <4>1, <4>2, <4>3
    <3>2. CASE ~ Fork(p)
      <4>1. PICK C \in SUBSET (Procs \ Members) :
              /\ pc' = [r \in Procs |-> IF r \in C \cup {p} THEN "cloned" ELSE pc[r]]
              /\ label' = [r \in Procs |-> IF r \in C THEN label[p] ELSE label[r]]
              /\ Inherit(p, C)
        BY <1>2, <3>2 DEF Clone
      <4> QED
        BY <3>2, <4>1
    <3> QED
      BY <3>1, <3>2
  <2>2. UNCHANGED network /\ pc[p] # "wait"
    BY <1>2 DEF Fork, Clone
  <2>3. \A a \in queue'[q] : a \in queue[q] \/ a.rep.from # q
    <3>1. CASE q \in C
      <4>1. PICK e \in Procs : queue'[q] = queue[e]
        BY <2>1, InheritCopies
      <4>2. \A a \in queue[e] : a.rep.from \in Members
        BY DEF IInv, InFlight
      <4> QED
        BY <2>1, <3>1, <4>1, <4>2
    <3>2. CASE q \notin C
      BY <2>1, <3>2 DEF Inherit, StateTypes
    <3> QED
      BY <3>1, <3>2
  <2>4. /\ pc'[q] = "wait" <=> pc[q] = "wait"
        /\ pc[q] = "wait" => label'[q] = label[q]
    BY <2>1, <2>2 DEF Members
  <2> QED
    BY <1>1, <2>2, <2>3, <2>4
<1>3. CASE ~ Fork(p) /\ ~ Clone(p)
  <2> USE <1>3 DEF StateTypes, Act, Goto, Exit, Return, ReportAs, ChildRebinds, locals
  <2>1. CASE Start(p) \/ Rebind(p)
    BY <1>1, <2>1 DEF Start, Rebind, SocketInit
  <2>2. CASE \/ Branch(p) \/ FinishAlone(p) \/ ForkFails(p) \/ ClockFails(p)
             \/ CloneFails(p)
    BY <1>1, <2>2 DEF Branch, FinishAlone, ForkFails, ClockFails, CloneFails
  <2>3. CASE Forked(p) \/ Cloned(p)
    BY <1>1, <2>3 DEF Forked, Cloned, NextIteration, CloneReturns
  <2> QED
    BY <2>1, <2>2, <2>3
<1> QED
  BY <1>2, <1>3

\* A report leaves when nothing of its member is under way.
LEMMA SendOrderly ==
  ASSUME StateTypes, IInv, \A q \in Procs : Orderly(q), NEW p \in Procs, SendReport(p)
  PROVE  \A q \in Procs : Orderly(q)'
<1> SUFFICES ASSUME NEW q \in Procs PROVE Orderly(q)'
  OBVIOUS
<1> USE DEF SendReport, Goto, StateTypes, locals
<1>1. Datagram(p).rep = Report(p) /\ Report(p).from = p
  BY DEF Datagram, Report
<1>2. UNCHANGED << label, inbound, queue >> /\ outbound' = outbound \cup {Datagram(p)}
  OBVIOUS
<1>3. CASE q = p
  <2>1. NothingLeft(q) /\ pc'[q] = "wait"
    BY <1>3 DEF Orderly
  <2>2. /\ FromOut(q)' = {Datagram(p)} /\ FromIn(q)' = {} /\ FromQueue(q)' = {}
        /\ Report(q)' = Report(q)
    BY <1>1, <1>2, <1>3, <2>1 DEF NothingLeft, FromOut, FromIn, FromQueue, Report
  <2>3. OneUnderWay(q)'
    BY <1>1, <1>3, <2>2 DEF OneUnderWay
  <2> QED
    BY <2>1, <2>3 DEF Orderly
<1>4. CASE q # p
  <2>1. /\ FromOut(q)' \subseteq FromOut(q) /\ FromIn(q)' \subseteq FromIn(q)
        /\ FromQueue(q)' \subseteq FromQueue(q)
    BY <1>1, <1>2, <1>4 DEF FromOut, FromIn, FromQueue
  <2> QED
    BY <1>2, <1>4, <2>1, OrderlyStays
<1> QED
  BY <1>3, <1>4

\* send_time() returns, or repeats its report, when nothing of the member is
\* under way any more: it has taken the answer, or none can come.
LEMMA AnswerOrderly ==
  ASSUME StateTypes, IInv, Timely, \A q \in Procs : Orderly(q), NEW p \in Procs,
         ReceiveAnswer(p) \/ Timeout(p)
  PROVE  \A q \in Procs : Orderly(q)'
<1> SUFFICES ASSUME NEW q \in Procs PROVE Orderly(q)'
  OBVIOUS
<1>1. p \in Reporting /\ p \in Members /\ pc[p] = "wait" /\ UNCHANGED network
  BY DEF ReceiveAnswer, Timeout, Reporting, Members
<1>2. su[p] = p /\ port[p] = ReportPort(p) /\ OneUnderWay(p)
  BY <1>1 DEF IInv, OwnSockets, Orderly
<1>3. UNCHANGED label /\ pc'[p] # "wait" /\ \A r \in Procs \ {p} : pc'[r] = pc[r]
  <2>1. \/ \E ok \in BOOLEAN : SendTimeReturns(p, ok)
        \/ Goto(p, "send") /\ UNCHANGED locals
    BY DEF ReceiveAnswer, Timeout
  <2> QED
    BY <2>1 DEF SendTimeReturns, NextIteration, CloneReturns, Return, Exit, Goto, locals,
       StateTypes
<1>4. CASE q # p
  <2>1. queue'[q] = queue[q]
    BY <1>2, <1>4 DEF ReceiveAnswer, Timeout, StateTypes
  <2>2. /\ FromOut(q)' \subseteq FromOut(q) /\ FromIn(q)' \subseteq FromIn(q)
        /\ FromQueue(q)' \subseteq FromQueue(q)
    BY <1>1, <2>1 DEF network, FromOut, FromIn, FromQueue
  <2> QED
    BY <1>3, <1>4, <2>2, OrderlyStays
<1>5. CASE q = p /\ Timeout(p)
  <2>1. queue[p] = {} /\ NothingComing(p) /\ UNCHANGED queue
    BY <1>2, <1>5 DEF Timeout, Timely, MayFail
  <2>2. NothingLeft(p)
    BY <1>2, <2>1 DEF NothingComing, OneUnderWay, NothingLeft, FromOut, FromIn, FromQueue
  <2>3. NothingLeft(p)'
    BY <1>1, <2>1, <2>2 DEF NothingLeft, FromOut, FromIn, FromQueue, network
  <2> QED
    BY <1>3, <1>5, <2>3 DEF Orderly
<1>6. CASE q = p /\ ReceiveAnswer(p)
  <2>1. PICK a \in queue[p] : queue' = [queue EXCEPT ![p] = @ \ {a}]
    BY <1>2, <1>6 DEF ReceiveAnswer
  <2>2. a.rep.from \in Members /\ ReportPort(a.rep.from) = ReportPort(p)
    BY <1>2, <2>1 DEF IInv, InFlight
  <2>3. a.rep.from = p
    BY <1>1, <2>2, ReportPortsDiffer
  <2>4. a \in FromQueue(p)
    BY <2>1, <2>3 DEF FromQueue
  <2>5. FromOut(p) = {} /\ FromIn(p) = {} /\ \A b \in FromQueue(p) : b = a
    BY <1>2, <2>4 DEF OneUnderWay
  <2>6. queue'[p] = queue[p] \ {a}
    BY <2>1 DEF StateTypes
  <2>7. NothingLeft(p)'
    BY <1>1, <2>5, <2>6 DEF NothingLeft, FromOut, FromIn, FromQueue, network
  <2> QED
    BY <1>3, <1>6, <2>7 DEF Orderly
<1> QED
  BY <1>4, <1>5, <1>6

\* The report becomes the answer, on the wire and then in the socket.
LEMMA EnvironmentOrderly ==
  ASSUME StateTypes, IInv, Timely, \A q \in Procs : Orderly(q), Environment
  PROVE  \A q \in Procs : Orderly(q)'
<1> SUFFICES ASSUME NEW q \in Procs PROVE Orderly(q)'
  OBVIOUS
<1>1. UNCHANGED << pc, label >>
  BY DEF Environment, Collect, AnswerArrives, Lose, members, locals
<1>2. Report(q)' = Report(q)
  BY <1>1 DEF Report
<1>3. ASSUME FromOut(q)' \subseteq FromOut(q), FromIn(q)' \subseteq FromIn(q),
             FromQueue(q)' \subseteq FromQueue(q)
      PROVE  Orderly(q)'
  BY <1>1, <1>3, OrderlyStays
<1>4. ASSUME OneUnderWay(q)', pc[q] = "wait"
      PROVE  Orderly(q)'
  BY <1>1, <1>4 DEF Orderly
<1>5. ASSUME NEW m \in outbound, Collect(m)
      PROVE  Orderly(q)'
  <2>1. PICK len \in {0, 1} :
          inbound' = inbound \cup {[rep |-> m.rep, port |-> m.port, len |-> len]}
    BY <1>5 DEF Collect
  <2>2. outbound' = outbound \ {m} /\ UNCHANGED queue
    BY <1>5 DEF Collect
  <2>3. CASE m.rep.from # q
    BY <1>3, <2>1, <2>2, <2>3 DEF FromOut, FromIn, FromQueue
  <2>4. CASE m.rep.from = q
    <3>1. m \in FromOut(q)
      BY <2>4 DEF FromOut
    <3>2. pc[q] = "wait" /\ OneUnderWay(q)
      BY <3>1 DEF Orderly, NothingLeft
    <3>3. m.rep = Report(q) /\ FromIn(q) = {} /\ FromQueue(q) = {}
      BY <3>1, <3>2 DEF OneUnderWay
    <3>4. \A n \in FromOut(q) : n = m
      <4> SUFFICES ASSUME NEW n \in FromOut(q) PROVE n = m
        OBVIOUS
      <4>1. n.rep = m.rep
        BY <3>2, <3>3 DEF OneUnderWay
      <4>2. n \in outbound /\ n \in Outbound /\ m \in Outbound
        BY DEF FromOut, StateTypes
      <4>3. n.port = m.port
        BY <4>1, <4>2 DEF IInv, InFlight
      <4> QED
        BY <4>1, <4>2, <4>3 DEF Outbound
    <3>5. FromOut(q)' = {} /\ FromQueue(q)' = {}
      BY <2>2, <3>3, <3>4 DEF FromOut, FromQueue
    <3>6. FromIn(q)' = {[rep |-> m.rep, port |-> m.port, len |-> len]}
      BY <2>1, <2>4, <3>3 DEF FromIn
    <3>7. OneUnderWay(q)'
      BY <1>2, <3>3, <3>5, <3>6 DEF OneUnderWay
    <3> QED
      BY <1>4, <3>2, <3>7
  <2> QED
    BY <2>3, <2>4
<1>6. ASSUME NEW m \in inbound, AnswerArrives(m)
      PROVE  Orderly(q)'
  <2>1. inbound' = inbound \ {m} /\ UNCHANGED outbound
    BY <1>6 DEF AnswerArrives, Timely
  <2> DEFINE a == [rep |-> m.rep, len |-> m.len]
  <2>2. \/ UNCHANGED queue
        \/ \E d \in Procs : queue' = [queue EXCEPT ![d] = @ \cup {a}]
    BY <1>6 DEF AnswerArrives
  <2>3. queue'[q] \subseteq queue[q] \cup {a} /\ a.rep = m.rep
    BY <2>2 DEF StateTypes
  <2> HIDE DEF a
  <2>4. FromOut(q)' = FromOut(q) /\ FromIn(q)' = FromIn(q) \ {m}
    BY <2>1 DEF FromOut, FromIn
  <2>5. CASE m.rep.from # q
    BY <1>3, <2>3, <2>4, <2>5 DEF FromQueue
  <2>6. CASE m.rep.from = q
    <3>1. m \in FromIn(q)
      BY <2>6 DEF FromIn
    <3>2. pc[q] = "wait" /\ OneUnderWay(q)
      BY <3>1 DEF Orderly, NothingLeft
    <3>3. /\ m.rep = Report(q) /\ FromOut(q) = {} /\ FromQueue(q) = {}
          /\ \A n \in FromIn(q) : n = m
      BY <3>1, <3>2 DEF OneUnderWay
    <3>4. FromOut(q)' = {} /\ FromIn(q)' = {} /\ FromQueue(q)' \subseteq {a}
      BY <2>3, <2>4, <3>3 DEF FromQueue
    <3>5. OneUnderWay(q)'
      BY <1>2, <2>3, <3>3, <3>4 DEF OneUnderWay
    <3> QED
      BY <1>4, <3>2, <3>5
  <2> QED
    BY <2>5, <2>6
<1>7. ASSUME Lose
      PROVE  Orderly(q)'
  <2>1. outbound' \subseteq outbound /\ inbound' \subseteq inbound /\ UNCHANGED queue
    BY <1>7 DEF Lose
  <2> QED
    BY <1>3, <2>1 DEF FromOut, FromIn, FromQueue
<1> QED
  BY <1>5, <1>6, <1>7 DEF Environment

\* Every step keeps at most one thing of a member under way.
LEMMA NextOrderly ==
  ASSUME StateTypes, IInv, OneAtATime, [Next]_vars
  PROVE  OneAtATime'
<1>1. faults' = faults
  BY DEF Next, Step, Environment, vars
<1>2. ASSUME Timely
      PROVE  \A q \in Procs : Orderly(q)'
  <2>1. \A q \in Procs : Orderly(q)
    BY <1>2 DEF OneAtATime, Orderly
  <2>2. ASSUME NEW p \in Procs, Step(p)
        PROVE  \A q \in Procs : Orderly(q)'
    <3>1. ~ SendFails(p)
      BY <1>2 DEF SendFails, MayFail, Timely
    <3>2. Act(p)
      BY <2>2 DEF Step
    <3> QED
      BY <1>2, <2>1, <3>1, <3>2, OtherStepsOrderly, SendOrderly, AnswerOrderly
  <2>3. CASE Environment
    BY <1>2, <2>1, <2>3, EnvironmentOrderly
  <2>4. CASE UNCHANGED vars
    BY <2>1, <2>4 DEF vars, locals, network, Orderly, OneUnderWay, NothingLeft, FromOut,
       FromIn, FromQueue, Report
  <2> QED
    BY <2>2, <2>3, <2>4 DEF Next
<1>3. Timely' => Timely
  BY <1>1 DEF Timely
<1> QED
  BY <1>2, <1>3 DEF OneAtATime, Orderly

\* An answer that a member takes is then the one to its report.
LEMMA NextTimelyAck ==
  ASSUME StateTypes, IInv, RInv, OneAtATime, TimelyAcksAreTrue, [Next]_vars
  PROVE  TimelyAcksAreTrue'
<1>1. ASSUME NEW p \in Procs, ReceiveAnswer(p), Timely
      PROVE  Report(p) \in received
  <2>1. p \in Reporting /\ p \in Members /\ pc[p] = "wait"
    BY <1>1 DEF ReceiveAnswer, Reporting, Members
  <2>2. su[p] = p /\ port[p] = ReportPort(p)
    BY <2>1 DEF IInv, OwnSockets
  <2>3. PICK a \in queue[p] : TRUE
    BY <1>1, <2>2 DEF ReceiveAnswer
  <2>4. /\ a.rep.from \in Members /\ ReportPort(a.rep.from) = ReportPort(p)
        /\ a.rep \in received
    BY <2>1, <2>2, <2>3 DEF IInv, InFlight, RInv, RightReports
  <2>5. a.rep.from = p
    BY <2>1, <2>4, ReportPortsDiffer
  <2>6. a \in FromQueue(p) /\ OneUnderWay(p)
    BY <1>1, <2>1, <2>3, <2>5 DEF FromQueue, OneAtATime
  <2> QED
    BY <2>4, <2>6 DEF OneUnderWay
<1>2. acked' = acked \/ \E p \in Procs : ReceiveAnswer(p) /\ acked' = acked \cup {Report(p)}
  BY AckedGrows
<1>3. received \subseteq received' /\ faults' = faults
  BY ReportsFlow DEF Next, Step, Environment, vars
<1> QED
  BY <1>1, <1>2, <1>3 DEF TimelyAcksAreTrue, AckedMeansReceived, Timely

-----------------------------------------------------------------------------
(* A fork() at a time: Root counts its children.                            *)

\* Where Root is before it has children, and after.
Before == pc[Root] \in {"start", "branch", "clone"}
            \/ (pc[Root] \in {"send", "wait"} /\ label[Root].role = "boot")
After  == pc[Root] = "cloned" \/ (pc[Root] \in {"send", "wait"} /\ label[Root].role # "boot")

\* i counts the children, but for the one that Root has just forked.
Counted ==
  /\ IsFiniteSet(Members)
  /\ Before => Members = {Root} /\ iter[Root] = 0
  /\ pc[Root] = "fork" => Cardinality(Members \ {Root}) = iter[Root]
  /\ PastFork => Cardinality(Members \ {Root}) = iter[Root] + 1

\* A step that creates nobody keeps Counted if Root counts as it advances.
LEMMA KeepsCounted ==
  ASSUME StateTypes, IInv, Forking, Counted, Members' = Members,
         Before' => Before /\ iter'[Root] = iter[Root],
         pc'[Root] = "fork" =>
           \/ (pc[Root] = "fork" \/ Before) /\ iter'[Root] = iter[Root]
           \/ PastFork /\ iter'[Root] = iter[Root] + 1,
         PastFork' => PastFork /\ iter'[Root] = iter[Root]
  PROVE  Counted'
<1>1. Before => Cardinality(Members \ {Root}) = iter[Root]
  <2>1. Before => Members \ {Root} = {}
    BY DEF Counted
  <2> QED
    BY <2>1, FS_EmptySet DEF Counted
<1> QED
  BY <1>1 DEF Counted

\* Root counts one child per iteration, whatever fails in it.
LEMMA NextCounted ==
  ASSUME StateTypes, IInv, Forking, Counted, [Next]_vars
  PROVE  Counted'
<1> USE DEF StateTypes
<1>1. Root \in Procs /\ Root \in Members /\ ret[Root] # 0
      /\ \A p \in Procs : opts[p].fork /\ pc[p] \notin {"clone", "cloned"}
  BY ConstantsAssumption DEF IInv, Places, Members
<1>2. ASSUME NEW p \in Procs, Act(p), ~ Fork(p)
      PROVE  Counted'
  <2>1. /\ pc[p] # "absent" /\ UNCHANGED family
        /\ \E l \in PCs \ {"absent"} : Goto(p, l)
        /\ \A q \in Procs \ {p} : label'[q] = label[q]
        /\ iter' = iter \/ NextIteration(p)
    BY <1>1, <1>2, OwnStep DEF Clone
  <2>2. Members' = Members
    BY <2>1 DEF Goto, Members
  <2>3. CASE p # Root
    <3>1. pc'[Root] = pc[Root] /\ label'[Root] = label[Root] /\ iter'[Root] = iter[Root]
      BY <1>1, <2>1, <2>3 DEF Goto, NextIteration
    <3> QED
      BY <2>2, <3>1, KeepsCounted DEF Before, PastFork
  <2>4. CASE p = Root
    <3>1. /\ Before' => Before /\ iter'[Root] = iter[Root]
          /\ PastFork' => PastFork /\ iter'[Root] = iter[Root]
          /\ pc'[Root] = "fork" =>
               \/ (pc[Root] = "fork" \/ Before) /\ iter'[Root] = iter[Root]
               \/ PastFork /\ iter'[Root] = iter[Root] + 1
      <4>1. pc[p] # "rebind" /\ (pc[p] = "start" => label[p].role = "boot")
        BY <2>4 DEF IInv, Places
      <4>2. iter[p] \in Nat
        BY ChildrenNumBounds
      <4> USE <1>1, <2>4, <4>1, <4>2 DEF Before, PastFork, Goto, Exit, Return, ReportAs,
              ChildRebinds, locals, Settled
      <4>3. CASE Start(p) \/ Branch(p) \/ FinishAlone(p) \/ ForkFails(p) \/ ClockFails(p)
                  \/ SendReport(p)
        BY <4>3 DEF Start, Branch, FinishAlone, ForkFails, ClockFails, SendReport
      <4>4. CASE SendFails(p) \/ Timeout(p) \/ ReceiveAnswer(p)
        BY <4>4 DEF SendFails, Timeout, ReceiveAnswer, SendTimeReturns, NextIteration
      <4>5. CASE Forked(p)
        BY <4>5 DEF Forked, NextIteration
      <4>6. ~ Clone(p) /\ ~ CloneFails(p) /\ ~ Cloned(p) /\ ~ Rebind(p)
        BY DEF Clone, CloneFails, Cloned, Rebind
      <4> QED
        BY <1>2, <4>3, <4>4, <4>5, <4>6 DEF Act
    <3> QED
      BY <2>2, <3>1, KeepsCounted
  <2> QED
    BY <2>3, <2>4
<1>3. ASSUME NEW p \in Procs, Fork(p)
      PROVE  Counted'
  <2>1. PICK c \in Procs \ Members :
          /\ pc'  = [pc EXCEPT ![p] = "forked", ![c] = "forked"]
          /\ iter'  = [iter EXCEPT ![c] = iter[p]]
    BY <1>3 DEF Fork
  <2>2. p = Root /\ pc[Root] = "fork"
    BY <1>3 DEF Fork, IInv, Places, Members
  <2>3. /\ pc'[Root] = "forked" /\ iter'[Root] = iter[Root]
        /\ Members' = Members \cup {c} /\ c # Root
    BY <1>1, <2>1, <2>2 DEF Members
  <2>4. Members' \ {Root} = (Members \ {Root}) \cup {c} /\ c \notin Members \ {Root}
    BY <2>1, <2>3
  <2>5. IsFiniteSet(Members) /\ IsFiniteSet(Members \ {Root})
        /\ Cardinality(Members \ {Root}) = iter[Root]
    BY <2>2, FS_RemoveElement DEF Counted
  <2>6. IsFiniteSet(Members') /\ Cardinality(Members' \ {Root}) = iter[Root] + 1
    BY <2>3, <2>4, <2>5, FS_AddElement
  <2> QED
    BY <2>3, <2>6 DEF Counted, Before
<1>4. CASE Environment \/ UNCHANGED vars
  <2>1. UNCHANGED << pc, iter, label >>
    BY <1>4 DEF Environment, Collect, AnswerArrives, Lose, members, vars, locals
  <2>2. Members' = Members
    BY <2>1 DEF Members
  <2> QED
    BY <2>1, <2>2, KeepsCounted DEF Before, PastFork
<1> QED
  BY <1>2, <1>3, <1>4 DEF Next, Step

\* A process table with more slots than a family needs has one for each fork().
LEMMA RoomToFork ==
  ASSUME StateTypes, IInv, Counted, NEW p \in Procs, pc[p] = "fork",
         IsFiniteSet(Procs) => Cardinality(Procs) > ChildrenNum
  PROVE  Members # Procs
<1> SUFFICES ASSUME Members = Procs PROVE FALSE
  OBVIOUS
<1>1. p = Root /\ Root \in Members /\ Forking /\ pc[Root] \notin Settled
  BY DEF IInv, Places, Members, Settled
<1>2. IsFiniteSet(Procs) /\ Cardinality(Members \ {Root}) = Cardinality(Procs) - 1
  BY <1>1, FS_RemoveElement DEF Counted
<1>3. iter[Root] < ChildrenNum /\ Cardinality(Members \ {Root}) = iter[Root]
  BY <1>1 DEF Counted, IInv, Numbers
<1>4. Cardinality(Procs) \in Nat /\ iter[Root] \in Int /\ ChildrenNum \in Int
  BY <1>1, <1>2, FS_CardinalityType, ChildrenNumBounds DEF StateTypes
<1> QED
  BY <1>2, <1>3, <1>4

-----------------------------------------------------------------------------
(* A family is a CloneFamily.                                              *)

\* Root has all of its children or none.
AllOrNone ==
  /\ ~ Forking
  /\ pc[Root] \in {"start", "branch", "clone"}
       \/ (pc[Root] \in {"send", "wait"} /\ label[Root].role = "boot")
       => Members = {Root}
  /\ pc[Root] = "cloned" \/ (pc[Root] \in {"send", "wait"} /\ label[Root].role # "boot")
       => Cardinality(Members \ {Root}) = ChildrenNum
  /\ pc[Root] \in {"clone", "cloned"}
       \/ (pc[Root] \in {"send", "wait"} /\ label[Root].role # "boot")
       => opts[Root].clone

\* Root knows how many children it has.
InNumbers == IF Forking THEN Counted ELSE AllOrNone

\* There is a slot for every child and one to spare.
RoomForAll == IsFiniteSet(Procs) => Cardinality(Procs) > ChildrenNum

\* No fork() of the family fails.
ForksWork == Forking => ~ MayFail /\ RoomForAll

Refines == [Family!Next]_(Family!vars)

Wanted == IF opts[Root].fork \/ opts[Root].clone THEN ChildrenNum ELSE 0

\* CloneFamily counts as the prologue does.
LEMMA SameCardinality == \A S : Family!Cardinality(S) = Cardinality(S)
BY DEF Family!Cardinality, Cardinality

\* A step inside the prologue is no step of the family.
LEMMA WorksOn ==
  ASSUME \A q \in Procs : Status(q)' = Status(q), UNCHANGED isChild,
         opts'[Root] = opts[Root]
  PROVE  Refines
BY DEF Refines, Family!vars

\* A member that fails gives up.
LEMMA GivesUp ==
  ASSUME StateTypes, NEW p \in Procs, Status(p) = "working", Exit(p),
         opts'[Root] = opts[Root]
  PROVE  Refines
<1>1. pc' = [pc EXCEPT ![p] = "failed"] /\ isChild' = isChild /\ pc \in [Procs -> PCs]
  BY DEF Exit, Goto, StateTypes
<1>2. [q \in Procs |-> Status(q)]' = [[q \in Procs |-> Status(q)] EXCEPT ![p] = "failed"]
  BY <1>1 DEF Status, Settled
<1>3. Family!GiveUp(p)
  BY <1>1, <1>2 DEF Family!GiveUp
<1> QED
  BY <1>3 DEF Refines, Family!Next

\* A member that returns is served, and a child has been told.
LEMMA IsServed ==
  ASSUME StateTypes, Told, NEW p \in Procs, Status(p) = "working",
         pc' = [pc EXCEPT ![p] = "ready"],
         isChild' = [isChild EXCEPT ![p] = (p # Root)],
         opts'[Root] = opts[Root],
         p = Root => Cardinality(Members \ {Root}) = Wanted
  PROVE  Refines
<1>1. pc \in [Procs -> PCs] /\ isChild \in [Procs -> BOOLEAN]
  BY DEF StateTypes
<1>2. [q \in Procs |-> Status(q)]' = [[q \in Procs |-> Status(q)] EXCEPT ![p] = "ready"]
  BY <1>1 DEF Status, Settled
<1>3. ~ isChild[p]
  BY DEF Told, Status, Settled
<1>4. {q \in Procs : isChild[q]}' = IF p = Root THEN {q \in Procs : isChild[q]}
                                    ELSE {q \in Procs : isChild[q]} \cup {p}
  BY <1>1, <1>3
<1>5. Family!Children = Members \ {Root}
  BY DEF Family!Children, Family!Absent, Members, Status, Settled
<1>6. Family!Serve(p)
  BY <1>2, <1>4, <1>5, SameCardinality DEF Family!Serve, Wanted
<1> QED
  BY <1>6 DEF Refines, Family!Next

\* What os_clone() returned decides who is told: the children and not Root.
LEMMA CloneReturnServes ==
  ASSUME StateTypes, IInv, Told, AllOrNone, NEW p \in Procs, CloneReturns(p),
         Status(p) = "working", opts'[Root] = opts[Root],
         p = Root => pc[p] = "cloned" \/ (pc[p] \in {"send", "wait"} /\ label[p].role # "boot")
  PROVE  Refines
<1>1. pc' = [pc EXCEPT ![p] = "ready"] /\ isChild' = [isChild EXCEPT ![p] = (ret[p] = 1)]
  BY DEF CloneReturns, Return, Goto
<1>2. (ret[p] = 1) = (p # Root)
  <2>1. p \in Members /\ ~ Forking
    BY DEF Members, Status, Settled, AllOrNone
  <2> QED
    BY <2>1 DEF IInv, Places
<1>3. p = Root => Cardinality(Members \ {Root}) = Wanted
  BY DEF AllOrNone, Wanted
<1> QED
  BY <1>1, <1>2, <1>3, IsServed

\* A child leaves the loop of fork_prologue() at once, Root when it has them all.
LEMMA NextIterationServes ==
  ASSUME StateTypes, IInv, Told, Counted, NEW p \in Procs, NextIteration(p), opts[p].fork,
         pc[p] = "forked" \/ (pc[p] \in {"send", "wait"} /\ label[p].role # "boot"),
         opts'[Root] = opts[Root]
  PROVE  Refines
<1>1. Forking /\ Status(p) = "working" /\ p \in Members
  BY DEF IInv, Places, Status, Settled, Members
<1>2. CASE ret[p] = 0
  <2>1. pc' = [pc EXCEPT ![p] = "ready"] /\ isChild' = [isChild EXCEPT ![p] = TRUE]
    BY <1>2 DEF NextIteration, Return, Goto
  <2>2. p # Root
    BY <1>1, <1>2 DEF IInv, Places
  <2> QED
    BY <1>1, <2>1, <2>2, IsServed
<1>3. CASE ret[p] # 0
  <2>1. p = Root /\ iter[p] < ChildrenNum /\ PastFork
    BY <1>3, IterBound
  <2>2. CASE iter[p] + 1 < ChildrenNum
    <3>1. Goto(p, "fork") /\ isChild' = isChild
      BY <1>3, <2>2 DEF NextIteration
    <3>2. \A q \in Procs : Status(q)' = Status(q)
      BY <1>1, <3>1 DEF Goto, Status, Settled, StateTypes
    <3> QED
      BY <3>1, <3>2, WorksOn
  <2>3. CASE ~ (iter[p] + 1 < ChildrenNum)
    <3>1. pc' = [pc EXCEPT ![p] = "ready"] /\ isChild' = [isChild EXCEPT ![p] = FALSE]
      BY <1>3, <2>3 DEF NextIteration, Return, Goto
    <3>2. iter[Root] + 1 = ChildrenNum
      BY <2>1, <2>3, ChildrenNumBounds DEF StateTypes
    <3>3. Cardinality(Members \ {Root}) = Wanted
      BY <1>1, <2>1, <3>2 DEF Counted, Wanted, Forking
    <3> QED
      BY <1>1, <2>1, <3>1, <3>3, IsServed
  <2> QED
    BY <2>2, <2>3
<1> QED
  BY <1>2, <1>3

\* What send_time() returns leaves the member where it is, or is all it waits for.
LEMMA SendTimeRefines ==
  ASSUME StateTypes, IInv, Told, InNumbers, NEW p \in Procs, NEW ok \in BOOLEAN,
         pc[p] \in {"send", "wait"}, SendTimeReturns(p, ok)
  PROVE  Refines
<1>1. Status(p) = "working" /\ opts' = opts /\ opts[p].fork = Forking
  BY DEF Status, Settled, SendTimeReturns, family, IInv, Places
<1>2. CASE label[p].role = "boot" /\ ok
  <2>1. Goto(p, "branch") /\ isChild' = isChild
    BY <1>2 DEF SendTimeReturns
  <2>2. \A q \in Procs : Status(q)' = Status(q)
    BY <2>1 DEF Goto, Status, Settled, StateTypes
  <2> QED
    BY <1>1, <2>1, <2>2, WorksOn
<1>3. CASE label[p].role = "boot" /\ ~ ok
  <2>1. Exit(p)
    BY <1>3 DEF SendTimeReturns
  <2> QED
    BY <1>1, <2>1, GivesUp
<1>4. CASE label[p].role # "boot"
  <2>1. CASE Forking
    BY <1>1, <1>4, <2>1, NextIterationServes DEF SendTimeReturns, InNumbers
  <2>2. CASE ~ Forking
    BY <1>1, <1>4, <2>2, CloneReturnServes DEF SendTimeReturns, InNumbers
  <2> QED
    BY <2>1, <2>2
<1> QED
  BY <1>2, <1>3, <1>4

\* One hypercall gives Root all the children that it wants.
LEMMA CloneRefines ==
  ASSUME StateTypes, IInv, AllOrNone, NEW p \in Procs, Clone(p)
  PROVE  Refines
<1>1. PICK C \in SUBSET (Procs \ Members) :
        /\ Cardinality(C) = ChildrenNum
        /\ pc' = [q \in Procs |-> IF q \in C \cup {p} THEN "cloned" ELSE pc[q]]
        /\ opts' = [q \in Procs |-> IF q \in C THEN ChildOptions(p) ELSE opts[q]]
  BY DEF Clone
<1>2. pc[p] = "clone" /\ isChild' = isChild /\ Root \in Procs
  BY ConstantsAssumption DEF Clone
<1>3. p = Root
  BY <1>2 DEF IInv, Places, Members
<1>4. Members = {Root} /\ opts[Root].clone
  BY <1>2, <1>3 DEF AllOrNone
<1>5. C # {} /\ C \cap Members = {}
  BY <1>1, FS_EmptySet, ChildrenNumBounds
<1>6. [q \in Procs |-> Status(q)]'
        = [q \in Procs |-> IF q \in C THEN "working" ELSE [x \in Procs |-> Status(x)][q]]
  BY <1>1, <1>2, <1>5 DEF Status, Settled, StateTypes
<1>7. Family!Absent = Procs \ Members /\ Family!Children = {}
  BY <1>4 DEF Family!Children, Family!Absent, Members, Status, Settled
<1>8. Family!Cardinality(Family!Children) + Family!Cardinality(C) = ChildrenNum
  BY <1>1, <1>7, SameCardinality, FS_EmptySet, ChildrenNumBounds
<1>9. opts'[Root] = opts[Root]
  BY <1>1, <1>2, <1>4, <1>5
<1>10. [q \in Procs |-> Status(q)][Root] = "working"
  BY <1>2, <1>3 DEF Status, Settled
<1>11. Family!Grow
  BY <1>1, <1>2, <1>4, <1>5, <1>6, <1>7, <1>8, <1>9, <1>10, ChildrenNumBounds DEF Family!Grow
<1> QED
  BY <1>11 DEF Refines, Family!Next

\* fork() gives Root one more of the children that it wants.
LEMMA ForkRefines ==
  ASSUME StateTypes, IInv, Counted, NEW p \in Procs, Fork(p)
  PROVE  Refines
<1>1. PICK c \in Procs \ Members :
        /\ pc'   = [pc EXCEPT ![p] = "forked", ![c] = "forked"]
        /\ opts' = [opts EXCEPT ![c] = opts[p]]
  BY DEF Fork
<1>2. pc[p] = "fork" /\ isChild' = isChild /\ Root \in Procs
  BY ConstantsAssumption DEF Fork
<1>3. p = Root /\ Forking /\ Root \in Members
  BY <1>2 DEF IInv, Places, Members
<1>4. /\ Cardinality(Members \ {Root}) = iter[Root] /\ iter[Root] < ChildrenNum
      /\ iter[Root] \in Int
  BY <1>2, <1>3, ChildrenNumBounds DEF Counted, IInv, Numbers, Settled, StateTypes
<1>5. [q \in Procs |-> Status(q)]'
        = [q \in Procs |-> IF q \in {c} THEN "working" ELSE [x \in Procs |-> Status(x)][q]]
  BY <1>1, <1>2 DEF Status, Settled, StateTypes
<1>6. Family!Absent = Procs \ Members /\ Family!Children = Members \ {Root}
  BY DEF Family!Children, Family!Absent, Members, Status, Settled
<1>7. Family!Cardinality(Family!Children) + Family!Cardinality({c}) =< ChildrenNum
  <2>1. Family!Cardinality(Family!Children) = iter[Root]
    BY <1>4, <1>6, SameCardinality
  <2>2. Family!Cardinality({c}) = 1
    BY SameCardinality, FS_Singleton
  <2> QED
    BY <1>4, <2>1, <2>2, ChildrenNumBounds
<1>8. opts'[Root] = opts[Root] /\ Wanted = ChildrenNum
  BY <1>1, <1>3 DEF Wanted, Forking, StateTypes
<1>9. [q \in Procs |-> Status(q)][Root] = "working"
  BY <1>2, <1>3 DEF Status, Settled
<1>10. {c} \in SUBSET Family!Absent /\ {c} # {}
  BY <1>1, <1>6
<1>11. Family!Grow
  BY <1>2, <1>5, <1>7, <1>8, <1>9, <1>10 DEF Family!Grow, Wanted
<1> QED
  BY <1>11 DEF Refines, Family!Next

\* Every step of a family is one of CloneFamily, or nothing to it.
LEMMA StepRefines ==
  ASSUME StateTypes, IInv, Told, InNumbers, ForksWork, [Next]_vars
  PROVE  Refines
<1> USE DEF StateTypes
<1>1. ASSUME NEW p \in Procs, Act(p)
      PROVE  Refines
  <2>1. /\ pc[p] \in {"fork", "forked"} => Forking /\ Counted
        /\ pc[p] \in {"clone", "cloned"} => ~ Forking /\ AllOrNone
        /\ opts[p].fork = Forking
    BY DEF IInv, Places, InNumbers
  <2>2. CASE Exit(p) /\ UNCHANGED family /\ pc[p] \notin Settled \cup {"absent"}
    BY <2>2, GivesUp DEF family, Status
  <2>3. ASSUME NEW l \in PCs \ (Settled \cup {"absent"}), Goto(p, l), UNCHANGED << isChild, family >>,
               pc[p] \notin Settled \cup {"absent"}
        PROVE  Refines
    <3>1. \A q \in Procs : Status(q)' = Status(q)
      BY <2>3 DEF Goto, Status
    <3> QED
      BY <2>3, <3>1, WorksOn DEF family
  <2>4. CASE Start(p)
    BY <2>2, <2>3, <2>4 DEF Start, PCs, Settled
  <2>5. CASE Branch(p)
    <3>1. Goto(p, "fork") \/ Goto(p, "clone")
      BY <2>5 DEF Branch
    <3> QED
      BY <2>3, <2>5, <3>1 DEF Branch, PCs, Settled
  <2>6. CASE FinishAlone(p)
    <3>1. p = Root
      BY <2>6 DEF FinishAlone, IInv, Places, Members
    <3>2. Members = {Root} /\ Wanted = 0
      BY <2>6, <3>1 DEF FinishAlone, InNumbers, Counted, Before, AllOrNone, Wanted
    <3>3. Cardinality(Members \ {Root}) = Wanted
      <4>1. Members \ {Root} = {}
        BY <3>2
      <4> QED
        BY <3>2, <4>1, FS_EmptySet
    <3>4. isChild' = [isChild EXCEPT ![p] = (p # Root)]
      BY <2>6, <3>1 DEF FinishAlone, Told
    <3>5. /\ pc' = [pc EXCEPT ![p] = "ready"] /\ opts'[Root] = opts[Root]
          /\ Status(p) = "working"
      BY <2>6 DEF FinishAlone, Goto, family, Status, Settled
    <3> QED
      BY <3>3, <3>4, <3>5, IsServed
  <2>7. CASE SendReport(p)
    BY <2>3, <2>7 DEF SendReport, PCs, Settled
  <2>8. CASE SendFails(p) \/ Timeout(p)
    BY <2>8, SendTimeRefines DEF SendFails, Timeout
  <2>9. CASE ReceiveAnswer(p)
    <3>1. CASE SendTimeReturns(p, TRUE)
      BY <2>9, <3>1, SendTimeRefines DEF ReceiveAnswer
    <3>2. CASE Goto(p, "send") /\ UNCHANGED << isChild, family >>
      BY <2>3, <2>9, <3>2 DEF ReceiveAnswer, PCs, Settled
    <3> QED
      BY <2>9, <3>1, <3>2 DEF ReceiveAnswer
  <2>10. CASE Fork(p) \/ ForkFails(p) \/ Forked(p)
    <3>1. CASE Fork(p)
      BY <2>1, <3>1, ForkRefines DEF Fork
    <3>2. ~ ForkFails(p)
      BY <2>1, RoomToFork DEF ForkFails, ForksWork, RoomForAll
    <3>3. CASE Forked(p) /\ NextIteration(p)
      BY <2>1, <3>3, NextIterationServes DEF Forked, family
    <3>4. CASE Forked(p) /\ (ReportAs(p, "parent", iter[p]) \/ ChildRebinds(p))
      BY <2>3, <3>4 DEF Forked, ReportAs, ChildRebinds, PCs, Settled
    <3> QED
      BY <2>10, <3>1, <3>2, <3>3, <3>4 DEF Forked
  <2>11. CASE Clone(p)
    BY <2>1, <2>11, CloneRefines DEF Clone
  <2>12. CASE CloneFails(p) \/ ClockFails(p)
    BY <2>2, <2>12 DEF CloneFails, ClockFails, Settled
  <2>13. CASE Cloned(p)
    <3>1. CASE CloneReturns(p)
      BY <2>1, <2>13, <3>1, CloneReturnServes DEF Cloned, family, Status, Settled
    <3>2. CASE ReportAs(p, "parent", myparentid(p)) \/ ChildRebinds(p)
      BY <2>3, <2>13, <3>2 DEF Cloned, ReportAs, ChildRebinds, PCs, Settled
    <3> QED
      BY <2>13, <3>1, <3>2 DEF Cloned
  <2>14. CASE Rebind(p)
    BY <2>2, <2>3, <2>14 DEF Rebind, ReportAs, PCs, Settled
  <2> QED
    BY <1>1, <2>4, <2>5, <2>6, <2>7, <2>8, <2>9, <2>10, <2>11, <2>12, <2>13, <2>14 DEF Act
<1>2. CASE Environment \/ UNCHANGED vars
  <2>1. UNCHANGED << pc, isChild, opts >>
    BY <1>2 DEF Environment, Collect, AnswerArrives, Lose, members, vars, family
  <2>2. \A q \in Procs : Status(q)' = Status(q)
    BY <2>1 DEF Status
  <2> QED
    BY <2>1, <2>2, WorksOn
<1> QED
  BY <1>1, <1>2 DEF Next, Step

\* A step that creates nobody keeps AllOrNone if Root stays on its side.
LEMMA KeepsAllOrNone ==
  ASSUME AllOrNone, Members' = Members, opts'[Root] = opts[Root],
         Before' => Before, After' => After,
         pc'[Root] = "clone" => opts[Root].clone
  PROVE  AllOrNone'
<1>1. Forking' = Forking
  BY DEF Forking
<1> QED
  BY <1>1 DEF AllOrNone, Before, After

\* Every step of a family of clones keeps it.
LEMMA NextAllOrNone ==
  ASSUME StateTypes, IInv, AllOrNone, [Next]_vars
  PROVE  AllOrNone'
<1> USE DEF StateTypes
<1>1. Root \in Procs /\ Root \in Members /\ ~ Forking
  BY ConstantsAssumption DEF IInv, Places, Members, AllOrNone
<1>2. ASSUME NEW p \in Procs, Act(p), ~ Clone(p)
      PROVE  AllOrNone'
  <2>1. pc[p] # "absent" /\ UNCHANGED family /\ \E l \in PCs \ {"absent"} : Goto(p, l)
    <3>1. ~ Fork(p)
      BY <1>1 DEF Fork, IInv, Places
    <3> QED
      BY <1>2, <3>1, OwnStep
  <2>2. Members' = Members /\ opts'[Root] = opts[Root]
    BY <2>1 DEF Goto, Members, family
  <2>3. CASE p # Root
    <3>1. pc'[Root] = pc[Root]
      BY <2>1, <2>3 DEF Goto
    <3>2. label'[Root] = label[Root]
      BY <1>1, <1>2, <2>3, OwnStep DEF Fork, IInv, Places
    <3> QED
      BY <2>2, <3>1, <3>2, KeepsAllOrNone DEF Before, After, AllOrNone
  <2>4. CASE p = Root
    <3>1. /\ Before' => Before
          /\ After' => After
          /\ pc'[Root] = "clone" => opts[Root].clone
      <4>1. ~ opts[p].fork /\ pc[p] \notin {"fork", "forked", "rebind"}
            /\ (pc[p] = "start" => label[p].role = "boot")
        BY <1>1, <2>4 DEF IInv, Places
      <4> USE <1>1, <2>4, <4>1 DEF Before, After, Goto, Exit, Return, ReportAs,
              ChildRebinds, locals, Settled
      <4>2. CASE Start(p) \/ Branch(p) \/ FinishAlone(p) \/ ClockFails(p)
                  \/ CloneFails(p) \/ SendReport(p)
        BY <4>2 DEF Start, Branch, FinishAlone, ClockFails, CloneFails, SendReport
      <4>3. CASE SendFails(p) \/ Timeout(p) \/ ReceiveAnswer(p)
        BY <4>3 DEF SendFails, Timeout, ReceiveAnswer, SendTimeReturns, CloneReturns
      <4>4. CASE Cloned(p)
        BY <4>4 DEF Cloned, CloneReturns
      <4>5. ~ Fork(p) /\ ~ ForkFails(p) /\ ~ Forked(p) /\ ~ Rebind(p)
        BY DEF Fork, ForkFails, Forked, Rebind
      <4> QED
        BY <1>2, <4>2, <4>3, <4>4, <4>5 DEF Act
    <3> QED
      BY <2>2, <3>1, KeepsAllOrNone
  <2> QED
    BY <2>3, <2>4
<1>3. ASSUME NEW p \in Procs, Clone(p)
      PROVE  AllOrNone'
  <2>1. PICK C \in SUBSET (Procs \ Members) :
          /\ Cardinality(C) = ChildrenNum
          /\ pc' = [q \in Procs |-> IF q \in C \cup {p} THEN "cloned" ELSE pc[q]]
          /\ opts' = [q \in Procs |-> IF q \in C THEN ChildOptions(p) ELSE opts[q]]
    BY <1>3 DEF Clone
  <2>2. p = Root /\ pc[Root] = "clone"
    BY <1>3 DEF Clone, IInv, Places, Members
  <2>3. Members = {Root} /\ opts[Root].clone
    BY <2>2 DEF AllOrNone
  <2>4. Members' = {Root} \cup C /\ Root \notin C
    BY <1>1, <2>1, <2>2, <2>3 DEF Members
  <2>5. Members' \ {Root} = C
    BY <2>4
  <2>6. pc'[Root] = "cloned" /\ opts'[Root] = opts[Root]
    BY <1>1, <2>1, <2>2, <2>4
  <2> QED
    BY <1>1, <2>1, <2>3, <2>5, <2>6 DEF AllOrNone, Forking
<1>4. CASE Environment \/ UNCHANGED vars
  <2>1. UNCHANGED << pc, opts, label >>
    BY <1>4 DEF Environment, Collect, AnswerArrives, Lose, members, vars, family, locals
  <2> QED
    BY <2>1, KeepsAllOrNone DEF Members, Before, After, AllOrNone
<1> QED
  BY <1>2, <1>3, <1>4 DEF Next, Step

-----------------------------------------------------------------------------
(* What success tells Root about its children.                             *)

\* A CloneFamily that serves Root is whole.
Whole == Status(Root) = "ready" => Cardinality(Family!Children) = Wanted

\* Every step of a CloneFamily keeps it: only Serve(Root) makes Root ready, and
\* Root grows no more then.
LEMMA NextWhole ==
  ASSUME Whole, [Family!Next]_(Family!vars)
  PROVE  Whole'
<1> DEFINE st == [p \in Procs |-> Status(p)]
<1>1. /\ Root \in Procs /\ st[Root] = Status(Root) /\ st'[Root] = Status(Root)'
      /\ Family!Absent = {p \in Procs : st[p] = "absent"}
      /\ Family!Absent' = {p \in Procs : st'[p] = "absent"}
  BY ConstantsAssumption DEF Family!Absent
<1>2. Status(Root) = "ready" => Cardinality(Family!Children) = Wanted
  BY DEF Whole
<1>3. /\ Family!Grow => /\ st[Root] = "working"
                        /\ \E C \in SUBSET Family!Absent :
                             st' = [p \in Procs |-> IF p \in C THEN "working" ELSE st[p]]
      /\ \A p \in Procs : Family!Serve(p) =>
           /\ st[p] = "working" /\ st' = [st EXCEPT ![p] = "ready"] /\ Wanted' = Wanted
           /\ p = Root => Cardinality(Family!Children) = Wanted
      /\ \A p \in Procs : Family!GiveUp(p) =>
           st[p] = "working" /\ st' = [st EXCEPT ![p] = "failed"] /\ Wanted' = Wanted
  BY SameCardinality DEF Family!Grow, Family!Serve, Family!GiveUp, Wanted
<1>4. UNCHANGED Family!vars => st' = st /\ Wanted' = Wanted
  BY DEF Family!vars, Wanted
<1>5. st \in [Procs -> {Status(p) : p \in Procs}]
  OBVIOUS
<1> HIDE DEF st
<1>6. CASE Family!Grow
  BY <1>1, <1>3, <1>6 DEF Whole
<1>7. ASSUME NEW p \in Procs, Family!Serve(p) \/ Family!GiveUp(p)
      PROVE  Whole'
  <2>1. Family!Absent' = Family!Absent
    BY <1>1, <1>3, <1>5, <1>7
  <2>2. Cardinality(Family!Children)' = Cardinality(Family!Children)
    BY <2>1 DEF Family!Children
  <2>3. Status(Root)' = "ready" => Cardinality(Family!Children) = Wanted
    BY <1>1, <1>2, <1>3, <1>5, <1>7
  <2> QED
    BY <1>3, <1>7, <2>2, <2>3 DEF Whole
<1>8. CASE UNCHANGED Family!vars
  BY <1>1, <1>2, <1>4, <1>8 DEF Whole, Family!Children
<1> QED
  BY <1>6, <1>7, <1>8 DEF Family!Next

\* A slot that holds nobody was given to nobody.
Unborn == \A p \in Procs \ Members : forkedBy[p] = NONE

\* fork() and os_clone() say who the new members are.
LEMMA NextUnborn ==
  ASSUME StateTypes, IInv, Unborn, [Next]_vars
  PROVE  Unborn'
<1> USE DEF StateTypes, Unborn, Members
<1>1. ASSUME NEW p \in Procs, Act(p)
      PROVE  Unborn'
  <2>1. CASE Fork(p)
    BY <2>1 DEF Fork
  <2>2. CASE Clone(p)
    BY <2>2 DEF Clone
  <2>3. CASE ~ Fork(p) /\ ~ Clone(p)
    BY <1>1, <2>3, OwnStep DEF Goto, family
  <2> QED
    BY <2>1, <2>2, <2>3
<1>2. CASE Environment \/ UNCHANGED vars
  BY <1>2 DEF Environment, Collect, AnswerArrives, Lose, members, vars, family
<1> QED
  BY <1>1, <1>2 DEF Next, Step

\* The children of the family are those that Root has created.
LEMMA ChildrenOfRoot ==
  ASSUME StateTypes, IInv, Unborn
  PROVE  {p \in Procs : forkedBy[p] = Root} = Family!Children
<1>1. Root # NONE /\ forkedBy[Root] = NONE
  BY ConstantsAssumption DEF IInv, Places
<1>2. \A c \in Members \ {Root} : forkedBy[c] = Root
  BY DEF IInv, Places
<1>3. Family!Children = Members \ {Root}
  BY DEF Family!Children, Family!Absent, Members, Status, Settled
<1> QED
  BY <1>1, <1>2, <1>3 DEF Unborn, Members

-----------------------------------------------------------------------------
(* Linux, when nothing goes wrong around the family.                       *)

\* The children's ports stay clear of the one of a collector on the same host.
ClearOfCollector == Platform = "posix" /\ PORT_COLLECTOR < PORT_PARENT - ChildrenNum

\* The current report of a member, or the answer, is somewhere.
Answerable(p) == (\E m \in outbound \cup inbound : m.rep = Report(p)) \/ queue[p] # {}

\* Nobody has failed; whoever holds a socket open, it is the one of a member on
\* its port; and whoever waits has something to wait for.
Calm ==
  /\ gaveUp = {}
  /\ Forking \/ Members = {Root}
  /\ \A p \in Procs : pc[p] \notin {"failed", "clone", "cloned"} /\ ~ opts[p].clone
  /\ \A d \in Procs : Open(d) => d \in Members /\ port[d] = ReportPort(d)
  /\ \A p \in Procs : pc[p] = "wait" => Answerable(p)

\* Only empty answers: no call fails, nothing is lost, late or repeated.
Quiet == faults \subseteq {"empty"}

\* A member can bind whatever port it asks for, and asks for its own.
LEMMA BindsItsPort ==
  ASSUME StateTypes, IInv, Quiet, Calm, ClearOfCollector, NEW p \in Procs
  PROVE  /\ ReportPort(Root) = PORT_PARENT /\ ~ SocketInitFails(PORT_PARENT)
         /\ pc[p] = "start" => p = Root
         /\ pc[p] = "rebind" => /\ p \in Members /\ myport[p] = ReportPort(p)
                                /\ ~ SocketInitFails(myport[p])
<1>1. ~ MayFail /\ PORT_PARENT # PORT_COLLECTOR
  BY DEF Quiet, MayFail, PORT_PARENT, PORT_COLLECTOR
<1>2. pc[p] = "start" => p = Root
  BY DEF IInv, Places, Members
<1>3. ASSUME pc[p] = "rebind"
      PROVE  p \in Members /\ myport[p] = ReportPort(p) /\ ~ SocketInitFails(myport[p])
  <2>1. p \in Members /\ p # Root
    BY <1>3 DEF IInv, Places, Members
  <2>2. Forking
    BY <2>1 DEF Calm
  <2>3. myport[p] = PORT_PARENT - 1 - iter[p] /\ iter[p] < ChildrenNum /\ iter[p] \in Nat
    BY <2>1, <2>2, ChildrenNumBounds DEF IInv, Numbers, StateTypes
  <2>4. PORT_COLLECTOR \in Int /\ PORT_PARENT \in Int /\ ChildrenNum \in Int
    BY ChildrenNumBounds, ParentPort DEF PORT_COLLECTOR
  <2>5. myport[p] # PORT_COLLECTOR
    BY <2>3, <2>4 DEF ClearOfCollector
  <2>6. myport[p] = ReportPort(p)
    BY <2>1, <2>2, <2>3 DEF ReportPort
  <2> QED
    BY <1>1, <2>1, <2>5, <2>6 DEF SocketInitFails, CanBind
<1> QED
  BY <1>1, <1>2, <1>3 DEF SocketInitFails, CanBind, ReportPort

\* What a calm member does not do.
LEMMA StaysCalm ==
  ASSUME StateTypes, IInv, Quiet, Calm, ClearOfCollector, NEW p \in Procs
  PROVE  /\ ~ SendFails(p) /\ ~ Timeout(p) /\ ~ ClockFails(p)
         /\ ~ Clone(p) /\ ~ CloneFails(p) /\ ~ Cloned(p)
<1>1. ~ MayFail /\ "delay" \notin faults
  BY DEF Quiet, MayFail
<1>2. pc[p] \notin {"clone", "cloned"}
  BY DEF Calm
<1>3. ~ Timeout(p)
  <2> SUFFICES ASSUME Timeout(p) PROVE FALSE
    OBVIOUS
  <2>1. pc[p] = "wait" /\ su[p] = p /\ Answerable(p)
    BY DEF Timeout, Calm, IInv, OwnSockets, Reporting
  <2>2. queue[p] = {} /\ NothingComing(p)
    BY <1>1, <2>1 DEF Timeout
  <2> QED
    BY <2>1, <2>2 DEF Answerable, NothingComing
<1> QED
  BY <1>1, <1>2, <1>3 DEF SendFails, ClockFails, Clone, CloneFails, Cloned

\* Sockets are opened by their owners, on their owners' ports.
LEMMA CalmSockets ==
  ASSUME StateTypes, IInv, Quiet, Calm, ClearOfCollector, NEW p \in Procs, Act(p),
         NEW d \in Procs, Open(d)'
  PROVE  d \in Members /\ port'[d] = ReportPort(d)
<1> USE DEF StateTypes
<1>1. ASSUME UNCHANGED port, \A q \in Procs : su'[q] = NONE \/ \E r \in Procs : su'[q] = su[r]
      PROVE  d \in Members /\ port'[d] = ReportPort(d)
  BY <1>1, ConstantsAssumption DEF Open, Calm
<1>2. ASSUME su' = [su EXCEPT ![p] = NONE] \/ su' = su, UNCHANGED port
      PROVE  d \in Members /\ port'[d] = ReportPort(d)
  <2>1. \A q \in Procs : su'[q] = NONE \/ su'[q] = su[q]
    BY <1>2
  <2> QED
    BY <1>1, <1>2, <2>1
<1>3. ASSUME NEW prt, SocketInit(p, prt), prt = ReportPort(p), p \in Members
      PROVE  d \in Members /\ port'[d] = ReportPort(d)
  <2>1. su' = [su EXCEPT ![p] = p] /\ port' = [port EXCEPT ![p] = prt]
    BY <1>3 DEF SocketInit
  <2>2. CASE d = p
    BY <1>3, <2>1, <2>2
  <2>3. CASE d # p
    BY <2>1, <2>3 DEF Open, Calm
  <2> QED
    BY <2>2, <2>3
<1>4. CASE Start(p)
  <2>1. p = Root /\ p \in Members
    BY <1>4, BindsItsPort DEF Start, Members
  <2>2. \/ UNCHANGED sockets
        \/ SocketInit(p, PORT_PARENT)
    BY <1>4, BindsItsPort DEF Start
  <2> QED
    BY <1>2, <1>3, <2>1, <2>2, BindsItsPort DEF sockets
<1>5. CASE Rebind(p)
  <2>1. p \in Members /\ myport[p] = ReportPort(p) /\ SocketInit(p, myport[p])
    BY <1>5, BindsItsPort DEF Rebind
  <2> QED
    BY <1>3, <2>1
<1>6. CASE Fork(p)
  <2>1. PICK c \in Procs \ Members : Inherit(p, {c})
    BY <1>6 DEF Fork
  <2>2. /\ su' = [q \in Procs |-> IF q \in {c} THEN su[p] ELSE su[q]]
        /\ UNCHANGED port
    BY <2>1 DEF Inherit, SharedKernel, ClearOfCollector
  <2> QED
    BY <1>1, <2>2
<1>7. CASE Branch(p) \/ FinishAlone(p) \/ SendReport(p) \/ ForkFails(p)
  BY <1>2, <1>7 DEF Branch, FinishAlone, SendReport, ForkFails, SocketFini, sockets
<1>8. CASE ReceiveAnswer(p) \/ Forked(p)
  BY <1>2, <1>8 DEF ReceiveAnswer, SendTimeReturns, Forked, NextIteration, CloneReturns,
     Return, Exit, ReportAs, ChildRebinds, SocketFini, sockets
<1> QED
  BY <1>4, <1>5, <1>6, <1>7, <1>8, StaysCalm DEF Act

\* No step takes from another member what it waits for.
LEMMA CalmWaits ==
  ASSUME StateTypes, IInv, Quiet, Calm, ClearOfCollector, NEW p \in Procs, Act(p),
         NEW q \in Procs, pc'[q] = "wait"
  PROVE  Answerable(q)'
<1> USE DEF StateTypes
<1>1. ASSUME pc[q] = "wait", label'[q] = label[q], queue'[q] = queue[q],
             outbound \subseteq outbound', inbound \subseteq inbound'
      PROVE  Answerable(q)'
  <2>1. Answerable(q) /\ Report(q)' = Report(q)
    BY <1>1 DEF Calm, Report
  <2> QED
    BY <1>1, <2>1 DEF Answerable
<1>2. CASE SendReport(p)
  <2>1. /\ outbound' = outbound \cup {Datagram(p)} /\ UNCHANGED << label, queue, inbound >>
        /\ pc' = [pc EXCEPT ![p] = "wait"]
    BY <1>2 DEF SendReport, Goto, locals
  <2>2. CASE q = p
    <3>1. Datagram(p).rep = Report(q)'
      BY <2>1, <2>2 DEF Datagram, Report
    <3> QED
      BY <2>1, <3>1 DEF Answerable
  <2>3. CASE q # p
    BY <1>1, <2>1, <2>3
  <2> QED
    BY <2>2, <2>3
<1>3. CASE Fork(p)
  <2>1. PICK c \in Procs \ Members :
          /\ pc'  = [pc EXCEPT ![p] = "forked", ![c] = "forked"]
          /\ label' = [label EXCEPT ![c] = label[p]]
          /\ Inherit(p, {c})
    BY <1>3 DEF Fork
  <2>2. UNCHANGED << queue, network >> /\ q # c /\ q # p
    BY <1>3, <2>1 DEF Fork, Inherit, SharedKernel, ClearOfCollector
  <2> QED
    BY <1>1, <2>1, <2>2 DEF network
<1>4. CASE ~ SendReport(p) /\ ~ Fork(p)
  <2>1. /\ \E l \in PCs \ {"absent"} : Goto(p, l)
        /\ \A r \in Procs \ {p} : label'[r] = label[r]
    BY <1>4, StaysCalm, OwnStep
  <2>2. q # p
    <3> USE <1>4 DEF Goto, Exit, Return, ReportAs, ChildRebinds, Settled
    <3>1. CASE Start(p) \/ Branch(p) \/ FinishAlone(p) \/ ForkFails(p) \/ Rebind(p)
      BY <3>1 DEF Start, Branch, FinishAlone, ForkFails, Rebind
    <3>2. CASE ReceiveAnswer(p) \/ Forked(p)
      BY <3>2 DEF ReceiveAnswer, SendTimeReturns, Forked, NextIteration, CloneReturns
    <3> QED
      BY <1>4, <3>1, <3>2, StaysCalm DEF Act
  <2>3. UNCHANGED network /\ queue'[q] = queue[q]
    <3>1. CASE Start(p) \/ Branch(p) \/ FinishAlone(p) \/ ForkFails(p) \/ Rebind(p) \/ Forked(p)
      BY <2>2, <3>1 DEF Start, Branch, FinishAlone, ForkFails, Rebind, Forked, SocketInit
    <3>2. CASE ReceiveAnswer(p)
      <4>1. su[p] = p
        BY <3>2 DEF ReceiveAnswer, IInv, OwnSockets, Reporting
      <4> QED
        BY <2>2, <3>2, <4>1 DEF ReceiveAnswer
    <3> QED
      BY <1>4, <3>1, <3>2, StaysCalm DEF Act
  <2> QED
    BY <1>1, <2>1, <2>2, <2>3 DEF Goto, network
<1> QED
  BY <1>2, <1>3, <1>4

\* The steps of the members keep the calm.
LEMMA CalmAct ==
  ASSUME StateTypes, IInv, Quiet, Calm, ClearOfCollector, [Next]_vars, NEW p \in Procs, Act(p)
  PROVE  Calm'
<1> USE DEF StateTypes
<1>1. \A d \in Procs : Open(d)' => d \in Members' /\ port'[d] = ReportPort(d)'
  BY CalmSockets, PortStays
<1>2. \A q \in Procs : pc'[q] = "wait" => Answerable(q)'
  BY CalmWaits
<1>3. \A q \in Procs : pc'[q] \notin {"failed", "clone", "cloned"} /\ ~ opts'[q].clone
  <2>1. CASE Fork(p)
    BY <2>1 DEF Fork, Calm
  <2>2. CASE ~ Fork(p)
    <3>1. UNCHANGED opts /\ \E l \in PCs \ {"absent"} : Goto(p, l)
      BY <2>2, StaysCalm, OwnStep DEF family
    <3>2. pc'[p] \notin {"failed", "clone", "cloned"}
      <4> USE DEF Goto, Return, ReportAs, ChildRebinds, Settled
      <4>1. CASE Start(p)
        BY <4>1, BindsItsPort DEF Start
      <4>2. CASE Rebind(p)
        BY <4>2, BindsItsPort DEF Rebind
      <4>3. CASE Branch(p) \/ FinishAlone(p) \/ ForkFails(p) \/ SendReport(p)
        BY <4>3 DEF Branch, FinishAlone, ForkFails, SendReport, Calm
      <4>4. CASE ReceiveAnswer(p) \/ Forked(p)
        BY <4>4 DEF ReceiveAnswer, SendTimeReturns, Forked, NextIteration, CloneReturns
      <4> QED
        BY <2>2, <4>1, <4>2, <4>3, <4>4, StaysCalm DEF Act
    <3> QED
      BY <3>1, <3>2 DEF Goto, Calm
  <2> QED
    BY <2>1, <2>2
<1>4. Forking' \/ Members' = {Root}
  <2>1. Forking' = Forking
    BY RootKeepsItsOptions
  <2>2. CASE Fork(p)
    BY <2>1, <2>2 DEF Fork, IInv, Places
  <2>3. CASE ~ Fork(p)
    BY <2>1, <2>3, StaysCalm, OwnStep DEF Goto, Members, Calm
  <2> QED
    BY <2>2, <2>3
<1>5. gaveUp' = {}
  <2>1. CASE ReceiveAnswer(p)
    BY <2>1 DEF ReceiveAnswer, SendTimeReturns, Calm
  <2>2. CASE ~ ReceiveAnswer(p)
    BY <2>2, StaysCalm DEF Act, Start, Branch, FinishAlone, SendReport, Fork, ForkFails, Forked,
       Rebind, history, Calm
  <2> QED
    BY <2>1, <2>2
<1> QED
  BY <1>1, <1>2, <1>3, <1>4, <1>5 DEF Calm

\* The collector answers every report, and the answer comes home: no other
\* socket is bound to the port of the member it is for.
LEMMA CalmEnvironment ==
  ASSUME StateTypes, IInv, Quiet, Calm, [Next]_vars, Environment
  PROVE  Calm'
<1>1. UNCHANGED << members, opts, pc, su, port, label, gaveUp >>
  BY DEF Environment, Collect, AnswerArrives, Lose, members, sockets, locals, family, history
<1>2. \A d \in Procs : Open(d)' => d \in Members' /\ port'[d] = ReportPort(d)'
  BY <1>1, PortStays DEF Open, Calm
<1>3. ASSUME NEW q \in Procs, pc'[q] = "wait"
      PROVE  Answerable(q)'
  <2>1. /\ pc[q] = "wait" /\ Answerable(q) /\ Report(q)' = Report(q) /\ Report(q).from = q
        /\ q \in Members
    BY <1>1, <1>3 DEF Calm, Report, Members
  <2>2. su[q] = q /\ port[q] = ReportPort(q)
    BY <2>1 DEF IInv, OwnSockets, Reporting
  <2>3. ASSUME NEW m \in outbound, Collect(m)
        PROVE  Answerable(q)'
    <3>1. PICK len :
            inbound' = inbound \cup {[rep |-> m.rep, port |-> m.port, len |-> len]}
      BY <2>3 DEF Collect
    <3>2. outbound' = outbound \ {m} /\ UNCHANGED queue
      BY <2>3 DEF Collect
    <3>3. [rep |-> m.rep, port |-> m.port, len |-> len].rep = m.rep
      OBVIOUS
    <3> QED
      BY <2>1, <3>1, <3>2, <3>3 DEF Answerable
  <2>4. ASSUME NEW m \in inbound, AnswerArrives(m)
        PROVE  Answerable(q)'
    <3> DEFINE there == {d \in Procs : Open(d) /\ port[d] = m.port}
    <3>1. UNCHANGED outbound /\ inbound \ {m} \subseteq inbound'
      BY <2>4 DEF AnswerArrives
    <3>2. \/ \E d \in there :
               queue' = [queue EXCEPT ![d] = @ \cup {[rep |-> m.rep, len |-> m.len]}]
          \/ there = {} /\ UNCHANGED queue
      BY <2>4 DEF AnswerArrives
    <3>3. queue[q] \subseteq queue'[q]
      BY <3>2 DEF StateTypes
    <3>4. ASSUME m.rep = Report(q)
          PROVE  queue'[q] # {}
      <4>1. m.port = ReportPort(q)
        BY <2>1, <3>4 DEF IInv, InFlight
      <4>2. q \in there
        BY <2>2, <4>1 DEF Open
      <4>3. \A d \in there : d = q
        BY <2>1, <4>1, ReportPortsDiffer DEF Calm
      <4> QED
        BY <3>2, <4>2, <4>3 DEF StateTypes
    <3> QED
      BY <2>1, <3>1, <3>3, <3>4 DEF Answerable
  <2>5. ~ Lose
    BY DEF Lose, Quiet
  <2> QED
    BY <2>3, <2>4, <2>5 DEF Environment
<1> QED
  BY <1>1, <1>2, <1>3 DEF Calm, Forking, Members

-----------------------------------------------------------------------------
(* Linux, with one child too many for the ports above the collector's.     *)

\* The children of a -t -f family that count down to the collector's port.
Unlucky == {c \in Members \ {Root} : opts[c].time /\ ReportPort(c) = PORT_COLLECTOR}

\* None of them reports, and none of them serves.
Barred == Forking => \A c \in Unlucky : pc[c] \in {"forked", "rebind", "failed"}

\* The port in use ends the child, and nothing else gets it any further.
LEMMA NextBarred ==
  ASSUME StateTypes, IInv, Barred, Platform = "posix", [Next]_vars
  PROVE  Barred'
<1> USE DEF StateTypes
<1> SUFFICES ASSUME Forking', NEW c \in Unlucky'
             PROVE  pc'[c] \in {"forked", "rebind", "failed"}
  BY DEF Barred
<1>1. Forking /\ Root \in Members /\ Root \in Procs /\ c \in Procs /\ c # Root
      /\ opts'[c].time
  BY RootKeepsItsOptions, ConstantsAssumption DEF IInv, Places, Members, Unlucky
<1>2. ASSUME NEW p \in Procs, Act(p)
      PROVE  pc'[c] \in {"forked", "rebind", "failed"}
  <2>1. CASE Fork(p)
    <3>1. PICK d \in Procs \ Members :
            /\ pc'   = [pc EXCEPT ![p] = "forked", ![d] = "forked"]
            /\ opts' = [opts EXCEPT ![d] = opts[p]]
      BY <2>1 DEF Fork
    <3>2. CASE c \in {p, d}
      BY <3>1, <3>2
    <3>3. CASE c \notin {p, d}
      <4>1. c \in Members /\ pc'[c] = pc[c] /\ opts'[c] = opts[c]
        BY <1>1, <3>1, <3>3 DEF Unlucky, Members
      <4>2. c \in Unlucky
        BY <1>1, <4>1, PortStays DEF Unlucky
      <4> QED
        BY <1>1, <4>1, <4>2 DEF Barred
    <3> QED
      BY <3>2, <3>3
  <2>2. CASE ~ Fork(p)
    <3>1. UNCHANGED family /\ pc[p] # "absent" /\ \E l \in PCs \ {"absent"} : Goto(p, l)
      BY <1>1, <1>2, <2>2, OwnStep DEF Clone, IInv, Places
    <3>2. c \in Members
      BY <3>1 DEF Goto, Members, Unlucky
    <3>3. c \in Unlucky /\ pc[c] \in {"forked", "rebind", "failed"}
      BY <1>1, <3>1, <3>2, PortStays DEF Unlucky, Barred, family
    <3>4. CASE p # c
      BY <3>1, <3>3, <3>4 DEF Goto
    <3>5. CASE p = c
      <4>1. ret[p] = 0 /\ opts[p].time
        BY <1>1, <3>2, <3>3, <3>5 DEF IInv, Places, Unlucky
      <4> USE <1>2, <3>3, <3>5, <4>1 DEF Goto, Exit, ChildRebinds
      <4>2. CASE pc[p] = "forked"
        <5>1. Forked(p) \/ ClockFails(p)
          BY <2>2, <4>2 DEF Act, Start, Branch, FinishAlone, SendReport, SendFails, ReceiveAnswer,
             Timeout, ForkFails, Clone, CloneFails, Cloned, Rebind
        <5> QED
          BY <4>2, <5>1 DEF Forked, ClockFails
      <4>3. CASE pc[p] = "rebind"
        <5>1. Rebind(p)
          BY <2>2, <4>3 DEF Act, Start, Branch, FinishAlone, SendReport, SendFails, ReceiveAnswer,
             Timeout, ForkFails, Forked, Clone, CloneFails, Cloned, ClockFails
        <5>2. myport[p] = PORT_COLLECTOR
          BY <1>1, <3>2, <3>5 DEF IInv, Numbers, Unlucky, ReportPort
        <5>3. ~ SocketInit(p, myport[p])
          BY <5>2 DEF SocketInit, CanBind, SharedKernel
        <5> QED
          BY <5>1, <5>3 DEF Rebind
      <4>4. pc[p] # "failed"
        BY <2>2 DEF Act, Start, Branch, FinishAlone, SendReport, SendFails, ReceiveAnswer,
           Timeout, ForkFails, Forked, Clone, CloneFails, Cloned, ClockFails, Rebind
      <4> QED
        BY <4>2, <4>3, <4>4
    <3> QED
      BY <3>4, <3>5
  <2> QED
    BY <2>1, <2>2
<1>3. CASE Environment \/ UNCHANGED vars
  <2>1. UNCHANGED << pc, opts >>
    BY <1>3 DEF Environment, Collect, AnswerArrives, Lose, members, vars, family
  <2>2. c \in Unlucky
    BY <1>1, <2>1, PortStays DEF Unlucky, Members
  <2> QED
    BY <1>1, <2>1, <2>2 DEF Barred
<1> QED
  BY <1>2, <1>3 DEF Next, Step

-----------------------------------------------------------------------------
(* How far a member is from the end of its prologue.                       *)

\* What is left of an iteration, or of a prologue without any.
Rank(p) ==
  IF pc[p] \in {"send", "wait"}
    THEN (IF label[p].role = "boot" THEN 7 ELSE 1) + (IF pc[p] = "send" THEN 1 ELSE 0)
    ELSE IF pc[p] = "start" THEN 9
    ELSE IF pc[p] = "branch" THEN 6
    ELSE IF pc[p] \in {"fork", "clone"} THEN 5
    ELSE IF pc[p] \in {"forked", "cloned"} THEN 4
    ELSE IF pc[p] = "rebind" THEN 3 ELSE 0

Distance(p) == 10 * (ChildrenNum - iter[p]) + Rank(p)

\* send_time() took an empty answer and repeats its report.
Repeats(p) == pc[p] = "wait" /\ ReceiveAnswer(p) /\ pc'[p] = "send"

\* Every step of a member brings it closer to the end, but for a repetition, and
\* moves no other member.
Advances ==
  \A p \in Procs : Act(p) =>
    /\ Distance(p) \in 0 .. 10 * ChildrenNum + 9
    /\ Distance(p)' < Distance(p) \/ Repeats(p)
    /\ \A q \in Members \ {p} : Distance(q)' = Distance(q)

\* The distance counts steps.
LEMMA DistanceBounds ==
  ASSUME StateTypes, NEW p \in Procs
  PROVE  /\ Rank(p) \in 0 .. 9 /\ iter[p] \in Int /\ ChildrenNum \in Int
         /\ Distance(p) \in 0 .. 10 * ChildrenNum + 9
<1>1. Rank(p) \in 0 .. 9
  BY DEF Rank
<1>2. iter[p] \in Int /\ 0 =< iter[p] /\ iter[p] =< ChildrenNum /\ ChildrenNum \in Int
  BY ChildrenNumBounds DEF StateTypes
<1> QED
  BY <1>1, <1>2 DEF Distance

\* A lower rank in the same iteration is closer to the end.
LEMMA CloserInIteration ==
  ASSUME StateTypes, NEW p \in Procs, iter'[p] = iter[p], Rank(p)' < Rank(p),
         Rank(p)' \in Int
  PROVE  Distance(p)' < Distance(p)
<1>1. Distance(p)' = 10 * (ChildrenNum - iter[p]) + Rank(p)'
  BY DEF Distance
<1> QED
  BY <1>1, DistanceBounds DEF Distance

\* So is any rank in a later iteration.
LEMMA CloserByIteration ==
  ASSUME StateTypes, NEW p \in Procs, opts[p].fork,
         \/ pc[p] = "forked"
         \/ pc[p] \in {"send", "wait"} /\ label[p].role # "boot",
         NextIteration(p)
  PROVE  Distance(p)' < Distance(p)
<1>1. Rank(p) \in 1 .. 9
  BY DEF Rank
<1>2. pc'[p] \in {"ready", "fork"}
  BY DEF NextIteration, Return, Goto, StateTypes
<1>3. Rank(p)' = IF pc'[p] = "fork" THEN 5 ELSE 0
  BY <1>2 DEF Rank
<1>4. CASE ret[p] = 0
  <2>1. iter'[p] = iter[p] /\ pc'[p] = "ready"
    BY <1>4 DEF NextIteration, Return, Goto, StateTypes
  <2> QED
    BY <1>1, <1>3, <2>1, CloserInIteration
<1>5. CASE ret[p] # 0
  <2>1. iter'[p] = iter[p] + 1
    BY <1>5 DEF NextIteration, StateTypes
  <2>2. Distance(p)' = 10 * (ChildrenNum - (iter[p] + 1)) + Rank(p)'
    BY <2>1 DEF Distance
  <2> QED
    BY <1>1, <1>3, <2>2, DistanceBounds DEF Distance
<1> QED
  BY <1>4, <1>5

\* send_time() returns to something closer to the end.
LEMMA SendTimeAdvances ==
  ASSUME StateTypes, IInv, NEW p \in Procs, NEW ok \in BOOLEAN, pc[p] \in {"send", "wait"},
         SendTimeReturns(p, ok)
  PROVE  Distance(p)' < Distance(p)
<1> USE DEF StateTypes
<1>1. CASE label[p].role # "boot" /\ opts[p].fork /\ NextIteration(p)
  BY <1>1, CloserByIteration
<1>2. CASE ~ (label[p].role # "boot" /\ opts[p].fork /\ NextIteration(p))
  <2>1. /\ iter'[p] = iter[p]
        /\ pc'[p] \in IF label[p].role = "boot" THEN {"branch", "failed"} ELSE {"ready"}
    BY <1>2 DEF SendTimeReturns, CloneReturns, Return, Exit, Goto
  <2>2. Rank(p)' < Rank(p) /\ Rank(p)' \in Int
    BY <2>1 DEF Rank
  <2> QED
    BY <2>1, <2>2, CloserInIteration
<1> QED
  BY <1>1, <1>2

\* Every step of a member does.
LEMMA ActAdvances ==
  ASSUME StateTypes, IInv, NEW p \in Procs, Act(p)
  PROVE  Distance(p)' < Distance(p) \/ Repeats(p)
<1> USE DEF StateTypes
<1>1. CASE SendFails(p) \/ Timeout(p)
  BY <1>1, SendTimeAdvances DEF SendFails, Timeout
<1>2. CASE ReceiveAnswer(p)
  <2>1. pc[p] = "wait" /\ (SendTimeReturns(p, TRUE) \/ Goto(p, "send"))
    BY <1>2 DEF ReceiveAnswer
  <2> QED
    BY <1>2, <2>1, SendTimeAdvances DEF Repeats, Goto
<1>3. CASE (Forked(p) /\ NextIteration(p))
  <2>1. opts[p].fork
    BY <1>3 DEF Forked, IInv, Places
  <2> QED
    BY <1>3, <2>1, CloserByIteration DEF Forked
<1>4. CASE Fork(p) \/ Clone(p)
  <2>1. iter'[p] = iter[p] /\ pc'[p] \in {"forked", "cloned"} /\ pc[p] \in {"fork", "clone"}
    <3>1. CASE Fork(p)
      <4>1. PICK c \in Procs \ Members : /\ pc'   = [pc EXCEPT ![p] = "forked", ![c] = "forked"]
                                         /\ iter' = [iter EXCEPT ![c] = iter[p]]
        BY <3>1 DEF Fork
      <4>2. pc[p] = "fork" /\ c # p
        BY <3>1 DEF Fork, Members
      <4> QED
        BY <4>1, <4>2
    <3>2. CASE Clone(p)
      BY <3>2 DEF Clone
    <3> QED
      BY <1>4, <3>1, <3>2
  <2>2. Rank(p)' < Rank(p) /\ Rank(p)' \in Int
    BY <2>1 DEF Rank
  <2> QED
    BY <2>1, <2>2, CloserInIteration
<1>5. CASE \/ Start(p) \/ Branch(p) \/ FinishAlone(p) \/ SendReport(p) \/ ForkFails(p)
           \/ CloneFails(p) \/ Cloned(p) \/ Rebind(p) \/ ClockFails(p)
           \/ (Forked(p) /\ ~ NextIteration(p))
  <2> USE DEF Goto, Exit, Return, ReportAs, ChildRebinds, CloneReturns, locals, Settled
  <2>1. iter'[p] = iter[p]
    BY <1>5 DEF Start, Branch, FinishAlone, SendReport, ForkFails, CloneFails, Cloned, Rebind,
       ClockFails, Forked
  <2>2. Rank(p)' < Rank(p) /\ Rank(p)' \in Int
    <3>1. CASE Start(p)
      <4>1. label'[p].role = "boot" /\ pc'[p] \in {"branch", "send", "failed"} /\ pc[p] = "start"
        <5>1. p = Root /\ label[p].role = "boot"
          BY <3>1 DEF Start, IInv, Places, Members
        <5> QED
          BY <3>1, <5>1 DEF Start
      <4> QED
        BY <4>1 DEF Rank
    <3>2. CASE Branch(p) \/ FinishAlone(p)
      BY <3>2 DEF Branch, FinishAlone, Rank
    <3>3. CASE SendReport(p)
      BY <3>3 DEF SendReport, Rank
    <3>4. CASE ForkFails(p) \/ CloneFails(p) \/ ClockFails(p)
      BY <3>4 DEF ForkFails, CloneFails, ClockFails, Rank
    <3>5. CASE Cloned(p) \/ (Forked(p) /\ ~ NextIteration(p))
      <4>1. pc[p] \in {"forked", "cloned"}
            /\ (pc'[p] \in {"ready", "rebind"} \/ (pc'[p] = "send" /\ label'[p].role = "parent"))
        BY <3>5 DEF Cloned, Forked
      <4> QED
        BY <4>1 DEF Rank
    <3>6. CASE Rebind(p)
      <4>1. pc[p] = "rebind" /\ (pc'[p] = "failed" \/ (pc'[p] = "send" /\ label'[p].role = "child"))
        BY <3>6 DEF Rebind
      <4> QED
        BY <4>1 DEF Rank
    <3> QED
      BY <1>5, <3>1, <3>2, <3>3, <3>4, <3>5, <3>6
  <2> QED
    BY <2>1, <2>2, CloserInIteration
<1> QED
  BY <1>1, <1>2, <1>3, <1>4, <1>5 DEF Act

\* And moves nobody else.
LEMMA OthersStay ==
  ASSUME StateTypes, IInv, NEW p \in Procs, Act(p), NEW q \in Members \ {p}
  PROVE  Distance(q)' = Distance(q)
<1> USE DEF StateTypes
<1>1. q \in Procs
  BY DEF Members
<1>2. pc'[q] = pc[q] /\ label'[q] = label[q] /\ iter'[q] = iter[q]
  <2>1. CASE Fork(p)
    BY <1>1, <2>1 DEF Fork
  <2>2. CASE Clone(p)
    BY <1>1, <2>2 DEF Clone
  <2>3. CASE ~ Fork(p) /\ ~ Clone(p)
    <3>1. /\ \E l \in PCs \ {"absent"} : Goto(p, l)
          /\ label'[q] = label[q]
          /\ iter' = iter \/ NextIteration(p)
      BY <1>1, <2>3, OwnStep
    <3>2. pc'[q] = pc[q]
      BY <1>1, <3>1 DEF Goto
    <3>3. iter'[q] = iter[q]
      BY <1>1, <3>1 DEF NextIteration
    <3> QED
      BY <3>1, <3>2, <3>3
  <2> QED
    BY <2>1, <2>2, <2>3
<1> QED
  BY <1>2 DEF Distance, Rank

-----------------------------------------------------------------------------
(* The theorems.                                                           *)

\* What is in flight was said by the member it names, and each answer is to a
\* report that the collector got.
THEOREM ReportsAreRight == Spec => []RInv
<1>1. Init => RInv
  BY InitReports
<1>2. StateTypes /\ IInv /\ RInv /\ [Next]_vars => RInv'
  BY NextReports
<1> QED
  BY <1>1, <1>2, FamilyInvariant, PTL DEF Spec

\* Only those who return have been told what they are, and told the truth.
THEOREM AllAreTold == Spec => []Told
<1>1. Init => Told
  BY ConstantsAssumption DEF Init, Told, ChildKnowsItself
<1>2. StateTypes /\ IInv /\ Told /\ [Next]_vars => Told'
  BY NextTold
<1> QED
  BY <1>1, <1>2, FamilyInvariant, PTL DEF Spec

\* The child, and nobody but the child, comes out of the prologue as one.
THEOREM ChildrenKnow == Spec => []ChildKnowsItself
<1>1. Told => ChildKnowsItself
  BY DEF Told
<1> QED
  BY <1>1, AllAreTold, PTL

\* A first report that send_time() calls delivered has reached the collector,
\* whatever the network loses, repeats, delays or reorders.
THEOREM FirstAcksAreTrue == Spec => []FirstAckIsTrue
<1>1. Init => FirstAckIsTrue
  BY DEF Init, FirstAckIsTrue
<1>2. StateTypes /\ IInv /\ RInv /\ FirstAckIsTrue /\ [Next]_vars => FirstAckIsTrue'
  BY NextFirstAck
<1> QED
  BY <1>1, <1>2, FamilyInvariant, ReportsAreRight, PTL DEF Spec

\* The index that a child reports names the port that the report comes from.
THEOREM IndicesNamePorts == Spec => []IndexNamesPort
<1>1. StateTypes /\ IInv /\ RInv => IndexNamesPort
  BY InvIndexNamesPort
<1> QED
  BY <1>1, FamilyInvariant, ReportsAreRight, PTL

\* When answers come in time and once, every report that send_time() calls
\* delivered has reached the collector, also when datagrams are lost.
THEOREM TimelyAcks == Spec => []TimelyAcksAreTrue
<1>1. Init => OneAtATime /\ TimelyAcksAreTrue
  <2>1. ASSUME Init, NEW p \in Procs
        PROVE  pc[p] # "wait" /\ NothingLeft(p)
    BY <2>1 DEF Init, NothingLeft, FromOut, FromIn, FromQueue
  <2>2. Init => TimelyAcksAreTrue
    BY DEF Init, TimelyAcksAreTrue, AckedMeansReceived
  <2> QED
    BY <2>1, <2>2 DEF OneAtATime
<1>2. /\ StateTypes /\ IInv /\ RInv /\ OneAtATime /\ TimelyAcksAreTrue /\ [Next]_vars
        => OneAtATime' /\ TimelyAcksAreTrue'
  BY NextOrderly, NextTimelyAck
<1> QED
  BY <1>1, <1>2, FamilyInvariant, ReportsAreRight, PTL DEF Spec

\* Root knows at every step how many children it has: all of the clones or none,
\* or as many forked children as it has begun iterations.
THEOREM RootCounts == Spec => []InNumbers
<1>1. Init => InNumbers
  <2> SUFFICES ASSUME Init PROVE InNumbers
    OBVIOUS
  <2>1. Root \in Procs /\ pc = [p \in Procs |-> IF p = Root THEN "start" ELSE "absent"]
        /\ iter = [p \in Procs |-> 0]
    BY ConstantsAssumption DEF Init
  <2>2. Members = {Root} /\ pc[Root] = "start" /\ iter[Root] = 0
    BY <2>1 DEF Members
  <2>3. Counted
    BY <2>2, FS_Singleton DEF Counted, PastFork
  <2>4. ~ Forking => AllOrNone
    BY <2>2 DEF AllOrNone
  <2> QED
    BY <2>3, <2>4 DEF InNumbers
<1>2. StateTypes /\ IInv /\ InNumbers /\ [Next]_vars => InNumbers'
  BY NextCounted, NextAllOrNone, RootKeepsItsOptions DEF InNumbers
<1> QED
  BY <1>1, <1>2, FamilyInvariant, PTL DEF Spec

\* Families of any size do what CloneFamily promises, but for its liveness: Root
\* is served with all its children or not at all, each gets one outcome, and a
\* served child is told that it is one.  Clones do it under every fault, the
\* children of fork() when there is room for all and no call fails: elsewhere
\* the promise is broken (SuccessMeansFullFamily).
THEOREM FamiliesAreCloneFamilies ==
  ASSUME \A s \in Scenarios : s.line.fork => "call" \notin s.faults /\ RoomForAll
  PROVE  Spec => Family!Init /\ [][Family!Next]_(Family!vars)
<1>1. Init => ForksWork /\ Family!Init
  <2> SUFFICES ASSUME Init PROVE ForksWork /\ Family!Init
    OBVIOUS
  <2>1. /\ Root \in Procs
        /\ pc = [p \in Procs |-> IF p = Root THEN "start" ELSE "absent"]
        /\ \A p \in Procs : isChild[p] = FALSE
    BY ConstantsAssumption DEF Init
  <2>2. ForksWork
    BY <2>1 DEF Init, ForksWork, Forking, MayFail
  <2>3. [p \in Procs |-> Status(p)]
          = [p \in Procs |-> IF p = Root THEN "working" ELSE "absent"]
    BY <2>1 DEF Status, Settled
  <2>4. {p \in Procs : isChild[p]} = {}
    BY <2>1
  <2>5. Family!Init
    BY <2>3, <2>4, ChildrenNumBounds DEF Family!Init
  <2> QED
    BY <2>2, <2>5
<1>2. StateTypes /\ IInv /\ ForksWork /\ [Next]_vars => ForksWork'
  <2> SUFFICES ASSUME StateTypes, IInv, ForksWork, [Next]_vars PROVE ForksWork'
    OBVIOUS
  <2>1. faults' = faults
    BY DEF Next, Step, Environment, vars
  <2> QED
    BY <2>1, RootKeepsItsOptions DEF ForksWork, MayFail, RoomForAll
<1>3. /\ StateTypes /\ IInv /\ Told /\ InNumbers /\ ForksWork /\ [Next]_vars
        => [Family!Next]_(Family!vars)
  BY StepRefines DEF Refines
<1> QED
  BY <1>1, <1>2, <1>3, FamilyInvariant, AllAreTold, RootCounts, PTL DEF Spec

\* Under the same conditions server_prologue() returns 0 to the parent only when
\* it has all its children.
THEOREM SuccessIsWhole ==
  ASSUME \A s \in Scenarios : s.line.fork => "call" \notin s.faults /\ RoomForAll
  PROVE  Spec => []SuccessMeansFullFamily
<1>1. Family!Init => Whole
  <2>1. Family!Init => [p \in Procs |-> Status(p)][Root] = "working"
    BY ConstantsAssumption DEF Family!Init
  <2> QED
    BY <2>1, ConstantsAssumption DEF Whole
<1>2. Whole /\ [Family!Next]_(Family!vars) => Whole'
  BY NextWhole
<1>3. Init => Unborn
  BY DEF Init, Unborn
<1>4. StateTypes /\ IInv /\ Unborn /\ [Next]_vars => Unborn'
  BY NextUnborn
<1>5. StateTypes /\ IInv /\ Unborn /\ Whole => SuccessMeansFullFamily
  <2> SUFFICES ASSUME StateTypes, IInv, Unborn, Whole, pc[Root] = "ready",
                      opts[Root].fork \/ opts[Root].clone
               PROVE  Cardinality({p \in Procs : forkedBy[p] = Root}) = ChildrenNum
    BY DEF SuccessMeansFullFamily
  <2>1. Status(Root) = "ready" /\ Root \in Procs
    BY ConstantsAssumption DEF Status, Settled
  <2>2. Cardinality(Family!Children) = ChildrenNum
    BY <2>1 DEF Whole, Wanted
  <2> QED
    BY <2>2, ChildrenOfRoot
<1> QED
  BY <1>1, <1>2, <1>3, <1>4, <1>5, FamilyInvariant, FamiliesAreCloneFamilies, PTL DEF Spec

\* On Linux, when nothing but empty answers happens around it, no member of the
\* family fails and no send_time() gives up, for as many children as there are
\* ports between Root's and the collector's: two, with the ports of the code.
THEOREM CalmFamilies ==
  ASSUME ClearOfCollector
  PROVE  Spec => []NobodyFails
<1>1. Init => (Quiet => Calm)
  <2> SUFFICES ASSUME Init PROVE Calm
    OBVIOUS
  <2>1. /\ pc = [p \in Procs |-> IF p = Root THEN "start" ELSE "absent"]
        /\ su = [p \in Procs |-> NONE] /\ gaveUp = {} /\ Root \in Procs
    BY ConstantsAssumption DEF Init
  <2>2. \A p \in Procs : ~ opts[p].clone
    BY OptionsAssumption DEF Init, ClearOfCollector
  <2>3. \A d \in Procs : ~ Open(d)
    BY <2>1, ConstantsAssumption DEF Open
  <2>4. Members = {Root}
    BY <2>1 DEF Members
  <2> QED
    BY <2>1, <2>2, <2>3, <2>4 DEF Calm
<1>2. StateTypes /\ IInv /\ (Quiet => Calm) /\ [Next]_vars => (Quiet => Calm)'
  <2> SUFFICES ASSUME StateTypes, IInv, Quiet => Calm, [Next]_vars, Quiet'
               PROVE  Calm'
    OBVIOUS
  <2>1. Quiet /\ Calm
    BY DEF Quiet, Next, Step, Environment, vars
  <2>2. CASE UNCHANGED vars
    BY <2>1, <2>2 DEF vars, sockets, locals, family, network, history, Calm, Forking, Members,
       Open, ReportPort, Answerable, Report
  <2> QED
    BY <2>1, <2>2, CalmAct, CalmEnvironment DEF Next, Step
<1>3. (Quiet => Calm) => NobodyFails
  BY DEF Quiet, Calm, NobodyFails
<1> QED
  BY <1>1, <1>2, <1>3, FamilyInvariant, PTL DEF Spec

\* And the next child never reports and never serves, in any family: on Linux
\* the one that counts down to the collector's port ends there, whatever else
\* happens (this is why NobodyFails does not hold for three).
THEOREM ThirdChildIsBarred ==
  ASSUME Platform = "posix"
  PROVE  Spec => []Barred
<1>1. Init => Barred
  BY DEF Init, Barred, Unlucky, Members
<1>2. StateTypes /\ IInv /\ Barred /\ [Next]_vars => Barred'
  BY NextBarred
<1> QED
  BY <1>1, <1>2, FamilyInvariant, PTL DEF Spec

\* A member leaves its prologue after at most 10 * ChildrenNum + 9 steps of its
\* own and two for each empty answer it takes, whatever fails and whatever the
\* others do: only a collector that answers with empty datagrams for ever can
\* keep it in send_time() (EveryoneSettles).
THEOREM PrologueIsShort == Spec => [][Advances]_vars
<1>1. StateTypes /\ IInv => Advances
  BY DistanceBounds, ActAdvances, OthersStay DEF Advances
<1> QED
  BY <1>1, FamilyInvariant, PTL

=============================================================================
