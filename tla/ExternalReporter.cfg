SPECIFICATION FairSpec
CONSTANTS
    pg = pg
    left = left
    right = right
    Rows <- MCRows
    Services <- MCServices
    Pgw <- MCPgw
    Configs <- MCConfigs
    Ips <- MCIps
    Item <- MCItem
    NoReport = NoReport
    MaxFaults = 1
    MaxLate = 1
INVARIANTS TypeOK BehindByLate TellsItsCounts SettledIsTold
PROPERTIES AlarmsSettle ReportsSettle
