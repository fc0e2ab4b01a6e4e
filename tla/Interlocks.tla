----------------------------- MODULE Interlocks -----------------------------
(***************************************************************************)
(* The interlocks of an axis (motion/ecmcAxisData.cpp): a set of flags and *)
(* the summary that the drive and the trajectory generator look at.  A     *)
(* flag that changes counts from the next refresh of the summary on.       *)
(***************************************************************************)
DriveFlags == {"bothLimitsLow", "cntrlOutputHLDrive", "lagDrive", "maxVelocityDrive",
               "velocityDiffDrive", "hardware", "etherCatMaster"}
TrajFlags  == {"cntrlOutputHLTraj", "lagTraj", "maxVelocityTraj", "velocityDiffTraj",
               "noExecute", "plc", "encDiff"}
BwdFlags   == {"bwdLimit", "bwdSoftLimit", "plcBWD"}
FwdFlags   == {"fwdLimit", "fwdSoftLimit", "plcFWD"}
Flags      == DriveFlags \cup TrajFlags \cup BwdFlags \cup FwdFlags

\* The flags that ask for an emergency stop are looked at first.
EmergencyFlags == {"bothLimitsLow", "velocityDiffDrive", "velocityDiffTraj",
                   "cntrlOutputHLDrive", "cntrlOutputHLTraj", "etherCatMaster",
                   "hardware", "lagDrive", "lagTraj"}

With(flags, flag, on) == IF on THEN flags \cup {flag} ELSE flags \ {flag}
AnyOf(flags, some) == flags \cap some # {}

\* What stops the drive stops the trajectory, and what stops the trajectory
\* stops it in both directions or in one.
Summary(flags) ==
    [drive |-> AnyOf(flags, DriveFlags),
     bwd   |-> AnyOf(flags, DriveFlags \cup TrajFlags \cup BwdFlags),
     fwd   |-> AnyOf(flags, DriveFlags \cup TrajFlags \cup FwdFlags),
     stop  |-> IF AnyOf(flags, EmergencyFlags) THEN "emergency"
               ELSE IF flags # {} THEN "normal" ELSE "run"]

Summaries == [drive : BOOLEAN, bwd : BOOLEAN, fwd : BOOLEAN,
              stop : {"run", "normal", "emergency"}]
=============================================================================
