SPECIFICATION FairSpec
CONSTANTS
  siteA = siteA siteB = siteB d1 = d1 d2 = d2 foreign = foreign
  pub = pub xp = xp im = im nobody = nobody
  Sites <- MCSites Docs <- MCDocs Foreign = foreign Nobody = nobody
  Ingesters <- MCIngesters Publishers = {pub} Exporters = {xp} Importers = {im}
  PublishArgs <- MCPublishArgs ExportArgs <- MCExportArgs ImportArgs <- MCImportArgs
  Syncing = {siteA} History <- MCHistory
  MaxPublish = 2 MaxGen = 2 MaxBundles = 2 MaxKill = 1
INVARIANT StoreSound ReceiptMeansMerged GenerationConsumed ExportFindsObjects
PROPERTY ReceiptsImmutable GenerationsArrive
CHECK_DEADLOCK FALSE
