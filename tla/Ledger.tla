------------------------------- MODULE Ledger -------------------------------
(***************************************************************************)
(* Double-entry accounting of the monetary facts (src/src/accounting): the *)
(* posting rule of each fact, and the balance of an account over the chain *)
(* of a case.  An entry is posted by the SQL transaction that records its  *)
(* fact and is unique for it, so the journal of a case is a function of    *)
(* its chain.  Amounts are integers (cents).  Pure operators.              *)
(***************************************************************************)
EXTENDS Integers, FiniteSets

LedgerAccount ==
  {"PROVIDER_FLOAT", "SETTLEMENT", "CREDITOR_PAYABLE", "PAYER_PAYABLE", "FEE_REVENUE"}

(* ACCOUNT_KINDS: an asset grows by its debits, the others by credits.     *)
Asset == {"PROVIDER_FLOAT", "SETTLEMENT"}

(* PostingContext: what was ordered, what was observed (the order itself   *)
(* when the fact carries no observation) and the fee.                      *)
Context == [ordered: Nat, observed: Nat, fee: Nat]

(* withoutZeros: a line that is not positive is left out.                  *)
Positive(amount) == IF amount > 0 THEN amount ELSE 0

(* An entry: the amount of the debit and of the credit line of each        *)
(* account, 0 where there is none.                                         *)
NoLines == [a \in LedgerAccount |-> 0]
Entry(debits, credits) == [debits |-> debits, credits |-> credits]
One(a, amount) == [NoLines EXCEPT ![a] = Positive(amount)]
Two(a, amount, b, other) == [One(a, amount) EXCEPT ![b] = Positive(other)]

(* Mutant: the whole order is booked as paid, without the fee.             *)
BeneficiaryPaidInFull(c) == Entry(One("CREDITOR_PAYABLE", c.ordered), One("SETTLEMENT", c.ordered))

(* The debt towards the beneficiary is settled, net of the fee.            *)
BeneficiaryPaid(c) ==
  Entry(One("CREDITOR_PAYABLE", c.ordered - c.fee), One("SETTLEMENT", c.ordered - c.fee))

(* Mutant: the fee of a failed transfer is kept.                           *)
DebtMovesNetOfFee(c) ==
  Entry(One("CREDITOR_PAYABLE", c.ordered - c.fee), One("PAYER_PAYABLE", c.ordered - c.fee))

(* Collected and never delivered: the debt moves to the payer, fee back.   *)
DebtMovesToPayer(c) ==
  Entry(Two("CREDITOR_PAYABLE", c.ordered - c.fee, "FEE_REVENUE", c.fee),
        One("PAYER_PAYABLE", c.ordered))

(* POSTING_RULES: what the fact moves.                                     *)
Posting(type, c) ==
  CASE type = "PROVIDER_CONFIRMED" ->
         Entry(One("PROVIDER_FLOAT", c.observed),
               Two("CREDITOR_PAYABLE", c.observed - c.fee, "FEE_REVENUE", c.fee))
    [] type = "AMOUNT_MISMATCH_DETECTED" ->
         Entry(One("PROVIDER_FLOAT", c.observed), One("PAYER_PAYABLE", c.observed))
    [] type = "SETTLEMENT_SWEPT" ->
         Entry(One("SETTLEMENT", c.observed), One("PROVIDER_FLOAT", c.observed))
    [] type = "BANK_PROCESSING_COMPLETED" -> BeneficiaryPaid(c)
    [] type = "BANK_PROCESSING_FAILED" -> DebtMovesToPayer(c)
    [] type = "REFUND_COMPLETED" ->
         Entry(One("PAYER_PAYABLE", c.observed), One("PROVIDER_FLOAT", c.observed))
    [] OTHER -> Entry(NoLines, NoLines)

Total(lines) ==
  lines["PROVIDER_FLOAT"] + lines["SETTLEMENT"] + lines["CREDITOR_PAYABLE"]
    + lines["PAYER_PAYABLE"] + lines["FEE_REVENUE"]

(* journal_entries_balanced: what the trigger of the journal demands of an *)
(* entry when its transaction commits.                                     *)
BalancedEntry(entry) == Total(entry.debits) = Total(entry.credits)

(* balanceOf, for one entry.                                               *)
Net(entry, a) ==
  IF a \in Asset THEN entry.debits[a] - entry.credits[a] ELSE entry.credits[a] - entry.debits[a]

(* trialBalance of one case: its facts of each type, times their effect.   *)
CountOf(facts, type) == Cardinality({i \in DOMAIN facts : facts[i] = type})

Balance(facts, c, a) ==
  LET Part(type) == CountOf(facts, type) * Net(Posting(type, c), a)
  IN Part("PROVIDER_CONFIRMED") + Part("AMOUNT_MISMATCH_DETECTED") + Part("SETTLEMENT_SWEPT")
       + Part("BANK_PROCESSING_COMPLETED") + Part("BANK_PROCESSING_FAILED")
       + Part("REFUND_COMPLETED")
=============================================================================
