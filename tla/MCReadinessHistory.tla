-------------------------- MODULE MCReadinessHistory --------------------------
(* Releases of a network whose next forks are BPO1, at 3, and Amsterdam with Gloas, *)
(* at 5, and of which either may be moved or called off.                            *)
EXTENDS ReadinessHistory

EL(name, time) == [name |-> name, time |-> time]
CL(name, epoch, version, max) == [name |-> name, epoch |-> epoch, version |-> version, max |-> max]
NoEL == EL(NoName, 0)
NoCL == CL(NoName, 0, NoVersion, 0)

Names == <<"BPO1", "BPO2">>

\* Fulu is live at 1.  els: the execution forks; bpos: the epochs of the BPOs;
\* gloas: the epoch of Gloas, or 0; max: its own blob limit, or 0.
Compiled(els, bpos, gloas, max) ==
  [el |-> els,
   cl |-> [forks |-> <<[name |-> "electra", epoch |-> 0, version |-> "v5"],
                       [name |-> "fulu", epoch |-> 1, version |-> "v6"]>> \o
                     IF gloas = 0 THEN <<>> ELSE <<[name |-> "gloas", epoch |-> gloas, version |-> "v7"]>>,
           fulu |-> 1,
           blobs |-> SelectSeq(<<[epoch |-> 0, max |-> 9], [epoch |-> bpos, max |-> 15],
                                 [epoch |-> gloas, max |-> max]>>,
                               LAMBDA b : b.max = 9 \/ (b.epoch > 0 /\ b.max > 0)),
           cancelledBPOs |-> {}]]

Release(compiled, list) == [compiled |-> compiled, list |-> list]

\* What the execution layer, the BPO and Gloas may be in a compiled schedule.
ELs == {<<>>, <<EL("BPO1", 3)>>, <<EL("Amsterdam", 5)>>, <<EL("BPO1", 3), EL("Amsterdam", 5)>>,
        <<EL("BPO1", 5), EL("Amsterdam", 5)>>, <<EL("BPO1", 3), EL("Amsterdam", 6)>>}
CLs == {<<0, 0, 0>>, <<3, 0, 0>>, <<0, 5, 0>>, <<3, 5, 0>>, <<3, 5, 21>>, <<3, 6, 0>>}

\* Entries of an operator's list; the late ones share their instant with Glamsterdam.
BPO == [el |-> EL("BPO1", 3), cl |-> CL("BPO1", 3, "v6", 15)]
ELBPO == [el |-> EL("BPO1", 3), cl |-> NoCL]
Glamsterdam == [el |-> EL("Amsterdam", 5), cl |-> CL("gloas", 5, "v7", 0)]
JustGloas == [el |-> NoEL, cl |-> CL("gloas", 5, "v7", 0)]
LateELBPO == [el |-> EL("BPO1", 5), cl |-> NoCL]
LateBPO == [el |-> EL("BPO2", 5), cl |-> CL("BPO2", 5, "v6", 21)]
Early == [el |-> EL("BPO2", 4), cl |-> CL("BPO2", 4, "v6", 21)]

Lists == {<<>>, <<BPO>>, <<ELBPO>>, <<Glamsterdam>>, <<JustGloas>>, <<Early>>,
          <<BPO, Glamsterdam>>, <<Glamsterdam, BPO>>, <<Early, BPO>>,
          <<LateELBPO, Glamsterdam>>, <<Glamsterdam, LateELBPO>>, <<Glamsterdam, LateBPO>>}

\* A release, and then an operator's list for it; or the list from the start.
CalledOff ==
  UNION {{<<Release(c, <<>>), Release(c, l)>>, <<Release(c, l)>>} :
           c \in {Compiled(e, x[1], x[2], x[3]) : e \in ELs, x \in CLs}, l \in Lists}

\* A release that moves Glamsterdam.
Moved ==
  {<<Release(Compiled(<<EL("Amsterdam", 5)>>, 3, 5, 0), <<>>), Release(Compiled(<<EL("Amsterdam", 6)>>, 3, 6, 0), <<>>)>>}

Accepted ==
  {r \in CalledOff \cup Moved :
     \A i \in DOMAIN r : \A j \in DOMAIN r[i].list : Cancellable(r[i].compiled, r[i].list[j])}

\* The rules are looked at for all of them, the histories followed for a few: the
\* fork of both layers is moved or called off, alone or with another at its instant, or a BPO before it is.
Follow ==
  LET c == Compiled(<<EL("Amsterdam", 5)>>, 0, 5, 0)
      b == Compiled(<<EL("BPO1", 3), EL("Amsterdam", 5)>>, 3, 5, 0)
      d == Compiled(<<EL("BPO1", 5), EL("Amsterdam", 5)>>, 0, 5, 0)
  IN  Moved \cup {<<Release(c, <<>>), Release(c, <<Glamsterdam>>)>>, <<Release(b, <<>>), Release(b, <<BPO>>)>>,
                  <<Release(d, <<>>), Release(d, <<LateELBPO, Glamsterdam>>)>>}

FollowedNets == {Load(r[i].compiled, r[i].list) : r \in Follow, i \in {1, 2}}
Followed == net \in FollowedNets
===============================================================================
