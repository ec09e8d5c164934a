------------------------------- MODULE MirrorFee -------------------------------
(***************************************************************************)
(* contracts/src/MirrorFee.sol: accrual of a lead's performance fee and    *)
(* its release against an FDC proof, with the lead's rate as registered in *)
(* MirrorRegistry.  The actions are called by InstructionSender only and   *)
(* are composed with its own steps in InstructionSender.tla.               *)
(***************************************************************************)
EXTENDS MirrorAddresses

CONSTANTS Rates,      \* the feeRateBps leads register with
          Profits,    \* profits a fill or an accrual reports
          FeeSeeds,   \* amounts somebody seeds the fee contract with
          MaxFeeFunds \* bound: FXRP the fee contract holds

PROTOCOL_FEE_BPS == 1000
MAX_LEAD_FEE_BPS == 2000
BPS_DENOMINATOR  == 10000

Unregistered == -1

ASSUME FeeAssumption ==
    /\ Rates \subseteq Nat
    /\ Profits \subseteq Nat
    /\ FeeSeeds \subseteq Nat
    /\ MaxFeeFunds \in Nat

VARIABLES feeRateBps,   \* MirrorRegistry.leads: the rate, or Unregistered
          accruedFees,
          usedProofs,   \* transaction hashes releaseFee has consumed
          feeHeld,      \* fxrpToken.balanceOf(fee contract)
          leadPaid,     \* FXRP each lead has been paid
          feeRoles      \* which of instructionSender and fdcVerifier are set

feeVars == <<feeRateBps, accruedFees, usedProofs, feeHeld, leadPaid, feeRoles>>

FeeRoles == {"instructionSender", "fdcVerifier"}

FeeTypeOK ==
    /\ feeRateBps \in [Leads -> Rates \cup {Unregistered}]
    /\ accruedFees \in [Leads -> Nat]
    /\ usedProofs \in SUBSET Nat
    /\ feeHeld \in Nat
    /\ leadPaid \in [Leads -> Nat]
    /\ feeRoles \in SUBSET FeeRoles

FeeInit ==
    /\ feeRateBps = [l \in Leads |-> Unregistered]
    /\ accruedFees = [l \in Leads |-> 0]
    /\ usedProofs = {}
    /\ feeHeld = 0
    /\ leadPaid = [l \in Leads |-> 0]
    /\ feeRoles = FeeRoles

Registered(l) == feeRateBps[l] # Unregistered

\* MirrorRegistry.registerLead: once, and at no rate above 2000.
RegisterLead(l, rate) ==
    /\ ~Registered(l)
    /\ rate <= MAX_LEAD_FEE_BPS
    /\ feeRateBps' = [feeRateBps EXCEPT ![l] = rate]
    /\ UNCHANGED <<accruedFees, usedProofs, feeHeld, leadPaid, feeRoles>>

\* setInstructionSender and setFdcVerifier: set the address, or clear it.
SetFeeRole(r) ==
    /\ feeRoles' = IF r \in feeRoles THEN feeRoles \ {r} ELSE feeRoles \cup {r}
    /\ UNCHANGED <<feeRateBps, accruedFees, usedProofs, feeHeld, leadPaid>>

\* A plain FXRP transfer to the contract, which is what pays its releases: the deploy
\* script seeds it after the router.
FundFees(amount) ==
    /\ feeHeld + amount <= MaxFeeFunds
    /\ feeHeld' = feeHeld + amount
    /\ UNCHANGED <<feeRateBps, accruedFees, usedProofs, leadPaid, feeRoles>>

GrossFee(rate, profit) == (profit * rate) \div MAX_LEAD_FEE_BPS

ProtocolFee(gross) == (gross * PROTOCOL_FEE_BPS) \div BPS_DENOMINATOR

NetFee(rate, profit) ==
    LET gross == GrossFee(rate, profit) IN gross - ProtocolFee(gross)

\* accrueFee commits; it returns before the accrual when the gross fee is 0,
\* where the net fee is 0 too.
CanAccrue(l, profit) ==
    /\ "instructionSender" \in feeRoles
    /\ profit > 0
    /\ Registered(l)

\* InstructionSender.accrueFees: at most two accruals, all or none.
AccrueFees(accruals) ==
    LET Accrued(fees, x) ==
            [fees EXCEPT ![x.lead] = @ + NetFee(feeRateBps[x.lead], x.profit)]
    IN  /\ \A i \in DOMAIN accruals : CanAccrue(accruals[i].lead, accruals[i].profit)
        /\ \/ /\ Len(accruals) = 0
              /\ UNCHANGED accruedFees
           \/ /\ Len(accruals) = 1
              /\ accruedFees' = Accrued(accruedFees, accruals[1])
           \/ /\ Len(accruals) = 2
              /\ accruedFees' = Accrued(Accrued(accruedFees, accruals[1]), accruals[2])
        /\ UNCHANGED <<feeRateBps, usedProofs, feeHeld, leadPaid, feeRoles>>

\* Mutant: the settlement pays the gross fee.
PayGross(txHash, l, profit) ==
    LET gross == GrossFee(feeRateBps[l], profit)
    IN  /\ CanAccrue(l, profit)
        /\ "fdcVerifier" \in feeRoles /\ txHash \notin usedProofs /\ feeHeld >= gross
        /\ usedProofs' = usedProofs \cup {txHash}
        /\ feeHeld' = feeHeld - gross
        /\ leadPaid' = [leadPaid EXCEPT ![l] = @ + gross]
        /\ UNCHANGED <<feeRateBps, accruedFees, feeRoles>>

\* What applyFdcSettlement does with a profit: accrueFee, then releaseFee of
\* the net fee just accrued against the same proof.  The accrual and the release
\* cancel in accruedFees.
AccrueAndRelease(txHash, l, profit) ==
    LET net == NetFee(feeRateBps[l], profit)
    IN  /\ CanAccrue(l, profit)
        /\ \/ /\ net = 0
              /\ UNCHANGED feeVars
           \/ /\ net > 0
              /\ "fdcVerifier" \in feeRoles
              /\ txHash \notin usedProofs
              /\ feeHeld >= net        \* safeTransfer
              /\ usedProofs' = usedProofs \cup {txHash}
              /\ feeHeld' = feeHeld - net
              /\ leadPaid' = [leadPaid EXCEPT ![l] = @ + net]
              /\ UNCHANGED <<feeRateBps, accruedFees, feeRoles>>

=============================================================================
