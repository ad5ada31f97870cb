---------------------------- MODULE MCPreparation ----------------------------
(***************************************************************************)
(* The constants of Preparation for TLC: AMIs, registries and projects.    *)
(***************************************************************************)
EXTENDS Preparation, TLC

CONSTANTS sda, sdb, sdc, gp2, gp3

\* The hypothesis of TrackersAddressedAlways, as far as TLC can tell.
ASSUME BitsSufficeHere == BitsSuffice(0 .. 20)

-----------------------------------------------------------------------------
\* AMIs: a root alone, volumes that cannot be told apart or resized, a root and
\* a data volume of several kinds.
Vol(size, own) == [size |-> size, type |-> gp2, snapshot |-> "s" \in own,
                   encrypted |-> "e" \in own, iops |-> "i" \in own]
Root == sda :> Vol(1, {"s"})

MCImages ==
  {[root |-> sda, ebs |-> Root],
   [root |-> sda, ebs |-> Root @@ sdb :> Vol(1, {"s"}) @@ sdc :> Vol(1, {"s"})],
   [root |-> sda, ebs |-> sdb :> Vol(1, {"s"})],
   [root |-> sda, ebs |-> Root @@ sdb :> Vol(1, {"s", "e", "i"})],
   [root |-> sda, ebs |-> Root @@ sdb :> Vol(2, {"e"})]}

-----------------------------------------------------------------------------
Platforms ==
  [bitbuilder : {None, "f2", "lost"}, localPaths : BOOLEAN, fields : {TRUE},
   hosts : {<<>>, [ec2_launch |-> "absent"],
            [ec2_launch |-> "default", external |-> "absent"],
            [docker |-> "default"]},
   publish : {{"none"}, {"none", "junk"}}, runner : {None, "f2", "lost"},
   artifacts : {{}, {"aws_afi"}}]

File(e, v, known) ==
  [version |-> v, platforms |-> [p |-> e], bridges |-> {"uart", "iceblk"},
   bitbuilders |-> [f2 |-> known], runners |-> [f2 |-> known],
   fpgaSims |-> {"xsim"}]

Shipped == [bitbuilder |-> "f2", localPaths |-> TRUE, fields |-> TRUE,
            hosts |-> [ec2_launch |-> "default", external |-> "absent"],
            publish |-> {"none"}, runner |-> "f2", artifacts |-> {"aws_afi"}]

MCRegistry ==
  {File(e, TRUE, TRUE) : e \in Platforms}
  \cup {File(Shipped, v, known) : v, known \in BOOLEAN}

Hosts(slots) ==
  [type : {"external", "ec2_launch"}, path : {"absent", "null", "user"}, fields : {TRUE},
   slot : slots]

Value(n) == [value |-> n, ref |-> None]
Ref(name) == [value |-> None, ref |-> name]
Blockdev(name, n, t) ==
  [name |-> name, type |-> "iceblk", trackers |-> n, tagBits |-> t,
   portsMatch |-> TRUE]
Uart(name) ==
  [name |-> name, type |-> "uart", trackers |-> None, tagBits |-> None,
   portsMatch |-> TRUE]

Bridgings ==
  {<<>>, <<Uart("a"), Uart("a")>>, <<Blockdev("a", Value(1), None)>>,
   <<Uart("a"), Blockdev("b", Ref("N"), Value(0))>>,
   <<Uart("a"), Blockdev("b", Ref("N"), Value(2))>>,
   <<Blockdev("b", Value(5), Ref("N"))>>}

Plain(host, args, run, bridges, params) ==
  [version |-> TRUE, customRegistries |-> FALSE, fields |-> TRUE,
   platform |-> "p", fpgaSim |-> "xsim",
   build |-> [host |-> host, publish |-> "none", args |-> args],
   run |-> run, bridges |-> bridges, parameters |-> params]

Simple == [type |-> "ec2_launch", path |-> "user", fields |-> TRUE,
           slot |-> None]

Runs == {None} \cup
        [host : Hosts({None, "ok", "bad"}), artifact : {"aws_afi"}]

MCProject ==
  {Plain(h, a, r, <<>>, <<>>) :
     h \in Hosts({None, "ok"}), a \in BOOLEAN, r \in Runs}
  \cup
  {Plain(Simple, TRUE, None, b, params) :
     b \in Bridgings, params \in {<<>>, [N |-> 1], [N |-> 3], [N |-> 4]}}
  \cup
  {[Plain(Simple, TRUE, None, <<>>, <<>>) EXCEPT
      !.version = v, !.customRegistries = c, !.platform = "q"] :
     v, c \in BOOLEAN}
=============================================================================
