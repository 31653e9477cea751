SPECIFICATION NotificationsSpec
CONSTANTS
    a1 = a1
    email = email
    phone = phone
    Apartments = {a1}
    LastMonth = 4
    MaxBilled = 2
    FirstDay <- MCFirstDay
    Offers <- MCOffers
    Channels = {email}
    Devices = {phone}
    Modes = {"remind", "draft"}
    Plans <- MCPlans
    Owners <- MCOwners
    MaxIssued = 1
    MaxLost = 1
INVARIANTS
    DueIsScheduled
    MissedStaysListed
    BilledOrTold
    DraftedOnce
    UnpaidReminded
PROPERTIES
    RemindersSpaced
