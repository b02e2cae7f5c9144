----------------------------- MODULE PartsProofs -----------------------------
(***************************************************************************)
(* The specifications of MCRuntimeParts and MCFairParts, which run the     *)
(* parts one at a time: a behaviour of either is one of every part, so     *)
(* that what is proved of a part alone holds of it there.                  *)
(***************************************************************************)
EXTENDS MCRuntimeParts, MCFairParts, PublishProofs, SessionsProofs, ServiceProofs, BrowserProofs

\* A step is one of the part whose turn it is, and a stutter of every other.
LEMMA PartsStep ==
  ASSUME [PartsNext]_partVars
  PROVE  /\ [PubNext]_pubVars
         /\ [SesNext]_sesVars
         /\ [RateNextStep]_rateVars
         /\ [ColNext]_colVars
         /\ [MemNext]_memVars
         /\ [CmdNext]_cmdVars
         /\ [NavNext]_navVars
         /\ [RegNext]_regVars
<1>1. CASE Alone("publish") /\ PubNext
  BY <1>1 DEF Alone
<1>2. CASE Alone("sessions") /\ SesNext
  BY <1>2 DEF Alone
<1>3. CASE Alone("rate") /\ RateNextStep
  BY <1>3 DEF Alone
<1>4. CASE Alone("collector") /\ ColNext
  BY <1>4 DEF Alone
<1>5. CASE Alone("broker") /\ MemNext
  BY <1>5 DEF Alone
<1>6. CASE Alone("command") /\ CmdNext
  BY <1>6 DEF Alone
<1>7. CASE Alone("navigation") /\ NavNext
  BY <1>7 DEF Alone
<1>8. CASE Alone("regions") /\ RegNext
  BY <1>8 DEF Alone
<1>9. CASE UNCHANGED partVars
  BY <1>9 DEF partVars
<1> QED BY <1>1, <1>2, <1>3, <1>4, <1>5, <1>6, <1>7, <1>8, <1>9 DEF PartsNext

\* A behaviour of the parts without liveness properties, taken one at a time, is
\* a behaviour of each: no part is disturbed by another, and none starts in a
\* state it could not be in by itself.
THEOREM PartsAreTheParts ==
  PartsSpec => /\ PubSpec /\ SesSpec /\ RateSpec /\ ColSpec
               /\ MemSpec /\ CmdSpec /\ NavSpec /\ RegSpec
<1>1. PartsInit => PubInit /\ SesInit /\ RateInit /\ ColInit /\ MemInit /\ CmdInit /\ NavInit /\ RegInit
  BY DEF PartsInit
<1>2. [PartsNext]_partVars => /\ [PubNext]_pubVars
                               /\ [SesNext]_sesVars
                               /\ [RateNextStep]_rateVars
                               /\ [ColNext]_colVars
                               /\ [MemNext]_memVars
                               /\ [CmdNext]_cmdVars
                               /\ [NavNext]_navVars
                               /\ [RegNext]_regVars
  BY PartsStep
<1> QED BY <1>1, <1>2, PTL DEF PartsSpec, PubSpec, SesSpec, RateSpec, ColSpec, MemSpec, CmdSpec, NavSpec, RegSpec

\* The same of the parts with liveness properties.
LEMMA FairPartsStep ==
  ASSUME [FairNext]_fairVars
  PROVE  /\ [DevNext]_devVars
         /\ [SchNextStep]_schVars
         /\ [LifeNext]_lifeVars
         /\ [RedNext]_redVars
<1>1. CASE FairAlone("dev") /\ DevNext
  BY <1>1 DEF FairAlone
<1>2. CASE FairAlone("schedule") /\ SchNextStep
  BY <1>2 DEF FairAlone
<1>3. CASE FairAlone("lifecycle") /\ LifeNext
  BY <1>3 DEF FairAlone
<1>4. CASE FairAlone("redis") /\ RedNext
  BY <1>4 DEF FairAlone
<1>5. CASE UNCHANGED fairVars
  BY <1>5 DEF fairVars
<1> QED BY <1>1, <1>2, <1>3, <1>4, <1>5 DEF FairNext

\* A behaviour of the parts with liveness properties is a behaviour of each.
THEOREM FairPartsAreTheParts ==
  FairPartsSpec => DevSpec /\ SchSpec /\ LifeSpec /\ RedSpec
<1>1. FairInit => DevInit /\ SchInit /\ LifeInit /\ RedInit
  BY DEF FairInit
<1>2. [FairNext]_fairVars => /\ [DevNext]_devVars
                              /\ [SchNextStep]_schVars
                              /\ [LifeNext]_lifeVars
                              /\ [RedNext]_redVars
  BY FairPartsStep
<1> QED BY <1>1, <1>2, PTL DEF FairPartsSpec, DevSpec, SchSpec, LifeSpec, RedSpec

\* Every variable of every part keeps its type and its bound: the batches of the
\* broker, the counts of the limiter, the ring and the channels of the
\* collector, the cache of prefetched documents, the list of handled events.
THEOREM PartsTypes == PartsSpec => []PartsTypeOK
<1>1. PubInv => PubTypeOK
  BY DEF PubInv
<1>2. RateInv => RateTypeOK
  BY DEF RateInv
<1>3. MemInv => MemTypeOK
  BY DEF MemInv
<1>4. CmdInv => CmdTypeOK
  BY DEF CmdInv
<1>5. /\ PubTypeOK /\ SesTypeOK /\ RateTypeOK /\ ColTypeOK /\ MemTypeOK /\ CmdTypeOK /\ NavTypeOK
      /\ RegTypeOK
      => PartsTypeOK
  BY DEF PartsTypeOK
<1> QED BY <1>1, <1>2, <1>3, <1>4, <1>5, PartsAreTheParts, PubInvariant, SessionTypes, RateInvariant,
           CollectorIsBounded, MemInvariant, CmdInvariant, PrefetchIsBounded, HandledListIsBounded, PTL

\* Every variable of the parts with liveness properties keeps its type: no job
\* has two runs in progress, and no consumer takes what it was not delivered.
THEOREM FairPartsTypes == FairPartsSpec => []FairPartsTypeOK
<1>1. DevInv => DevTypeOK
  BY DEF DevInv
<1>2. LifeInv => LifeTypeOK
  BY DEF LifeInv
<1>3. DevTypeOK /\ SchTypeOK /\ LifeTypeOK /\ RedTypeOK => FairPartsTypeOK
  BY DEF FairPartsTypeOK
<1> QED BY <1>1, <1>2, <1>3, FairPartsAreTheParts, DevInvariant, JobsDoNotOverlap, LifeInvariant,
           RedTypes, PTL
=============================================================================
