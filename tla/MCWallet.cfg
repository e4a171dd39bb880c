SPECIFICATION WalletSpec

CONSTANTS
    UserNumber <- MCUserNumber
    Strangers = 10
    RequiredConfirmations <- MCRequiredConfirmations
    Transfers <- MCTransfers
    ConfirmationCounts = {11, 12}
    Requests <- MCRequests
    AutoApproveThreshold = 5
    Workers = {w1, w2}
    MaxWithdrawals = 1
    MaxIndex = 13
    MaxReports = 3

INVARIANT DepositsPaidOnce
PROPERTY WithdrawalsReviewed

CHECK_DEADLOCK FALSE
